---- MODULE Spec2Model ----
(***************************************************************************)
(* Model of the claude-historian search engine (src/src/search.ts) and of  *)
(* the helpers it calls (src/src/utils.ts, src/src/search-helpers.ts).     *)
(* Strings are sequences of one-character strings, so that includes(),     *)
(* toLowerCase(), split() and replace() are computed as the code computes  *)
(* them.  Timestamps are whole hours; scores are integers (the final,      *)
(* boosted score is kept in thousandths because the boosts have one        *)
(* decimal).                                                               *)
(***************************************************************************)
EXTENDS Integers, Sequences, FiniteSets, TLC

-----------------------------------------------------------------------------
(* String primitives of the JavaScript runtime                              *)

UpperChars == <<"A","B","C","D","E","F","G","H","I","J","K","L","M","N","O","P","Q","R","S","T","U","V","W","X","Y","Z">>

LowerChars == <<"a","b","c","d","e","f","g","h","i","j","k","l","m","n","o","p","q","r","s","t","u","v","w","x","y","z">>

DigitChars == {"0","1","2","3","4","5","6","7","8","9"}

WhiteChars == {" ", "\t", "\n"}

QuoteChars == {"\"", "'"}

\* String.prototype.toLowerCase, one character
LowerChar(c) ==
  IF \E i \in 1..Len(UpperChars) : UpperChars[i] = c
  THEN LowerChars[CHOOSE i \in 1..Len(UpperChars) : UpperChars[i] = c]
  ELSE c

\* String.prototype.toLowerCase
ToLower(s) == [i \in 1..Len(s) |-> LowerChar(s[i])]

\* String.prototype.includes
Includes(s, p) ==
  \E i \in 0..(Len(s) - Len(p)) : SubSeq(s, i + 1, i + Len(p)) = p

\* String.prototype.endsWith
EndsWith(s, p) ==
  /\ Len(p) <= Len(s)
  /\ SubSeq(s, Len(s) - Len(p) + 1, Len(s)) = p

\* String.prototype.substring(0, n)
Substring0(s, n) == SubSeq(s, 1, IF n < Len(s) THEN n ELSE Len(s))

\* Array.prototype.slice(0, n) for n >= 0
Slice0(s, n) == SubSeq(s, 1, IF n < Len(s) THEN n ELSE Len(s))

\* String.prototype.trim, then .length
RECURSIVE TrimLeft(_)
TrimLeft(s) ==
  IF s # <<>> /\ Head(s) \in WhiteChars THEN TrimLeft(Tail(s)) ELSE s

RECURSIVE TrimRight(_)
TrimRight(s) ==
  IF s # <<>> /\ s[Len(s)] \in WhiteChars
  THEN TrimRight(SubSeq(s, 1, Len(s) - 1)) ELSE s

Trim(s) == TrimRight(TrimLeft(s))

\* String.prototype.split(/\s+/): the pieces between maximal runs of
\* whitespace; a leading or trailing run leaves an empty piece.
RECURSIVE SplitWsFrom(_, _, _)
SplitWsFrom(s, i, cur) ==
  IF i > Len(s) THEN <<cur>>
  ELSE IF s[i] \in WhiteChars
       THEN IF i > 1 /\ s[i - 1] \in WhiteChars
            THEN SplitWsFrom(s, i + 1, cur)
            ELSE <<cur>> \o SplitWsFrom(s, i + 1, <<>>)
       ELSE SplitWsFrom(s, i + 1, Append(cur, s[i]))

SplitWs(s) == SplitWsFrom(s, 1, <<>>)

\* String.prototype.replace(/\d+/g, 'N')
RECURSIVE ReplaceDigitRuns(_)
ReplaceDigitRuns(s) ==
  IF s = <<>> THEN <<>>
  ELSE IF Head(s) \in DigitChars
       THEN IF Len(s) > 1 /\ s[2] \in DigitChars
            THEN ReplaceDigitRuns(Tail(s))
            ELSE <<"N">> \o ReplaceDigitRuns(Tail(s))
       ELSE <<Head(s)>> \o ReplaceDigitRuns(Tail(s))

\* String.prototype.replace(/["']/g, '')
RECURSIVE RemoveQuotes(_)
RemoveQuotes(s) ==
  IF s = <<>> THEN <<>>
  ELSE IF Head(s) \in QuoteChars THEN RemoveQuotes(Tail(s))
       ELSE <<Head(s)>> \o RemoveQuotes(Tail(s))

\* String.prototype.replace(/\s+/g, ' ')
RECURSIVE CollapseWs(_)
CollapseWs(s) ==
  IF s = <<>> THEN <<>>
  ELSE IF Head(s) \in WhiteChars
       THEN IF Len(s) > 1 /\ s[2] \in WhiteChars
            THEN CollapseWs(Tail(s))
            ELSE <<" ">> \o CollapseWs(Tail(s))
       ELSE <<Head(s)>> \o CollapseWs(Tail(s))

\* String.prototype.replace(/-/g, '/') and replace(/\//g, '-')
ReplaceChar(s, from, to) == [i \in 1..Len(s) |-> IF s[i] = from THEN to ELSE s[i]]

\* Math.ceil(a / b) for a >= 0, b > 0
CeilDiv(a, b) == (a + b - 1) \div b

Max(a, b) == IF a > b THEN a ELSE b

Min(a, b) == IF a < b THEN a ELSE b

SeqToSet(s) == {s[i] : i \in 1..Len(s)}

RECURSIVE SumSeq(_)
SumSeq(s) == IF s = <<>> THEN 0 ELSE Head(s) + SumSeq(Tail(s))

-----------------------------------------------------------------------------
(* The corpus: project directories under ~/.claude/projects, the entries of *)
(* each directory, and the log records of each session file.                *)

\* Date.now(), in hours
NowHours == 1000

\* 7 days, in hours
WeekHours == 168

\* A missing query argument: not a string
Undefined == << "undefined" >>

\* The log records.  "context" is the bundle the context extractor attaches
\* (files referenced, tools used, error phrases).
Records ==
  [ m1 |-> [ type |-> "assistant", timestamp |-> NowHours - 2, cwd |-> <<"/","p","/","a">>,
             content |-> <<"f","i","x"," ","e","r","r","o","r"," ","i","n"," ","d","o","c","k","e","r"," ","b","u","i","l","d"," ","b","y"," ","p","i","n","n","i","n","g"," ","t","h","e"," ","b","a","s","e"," ","i","m","a","g","e"," ","t","a","g"," ","1","2">>,
             toolsUsed |-> << <<"B","a","s","h">> >>, filesReferenced |-> <<>>, errorPatterns |-> <<>> ],
    m2 |-> [ type |-> "assistant", timestamp |-> NowHours - 30, cwd |-> <<"/","t","m","p">>,
             content |-> <<"F","i","x"," ","E","r","r","o","r"," ","i","n"," "," ","D","o","c","k","e","r"," ","b","u","i","l","d"," ","b","y"," ","p","i","n","n","i","n","g"," ","t","h","e"," ","'","b","a","s","e","'"," ","i","m","a","g","e"," ","t","a","g"," ","7">>,
             toolsUsed |-> << <<"B","a","s","h">> >>, filesReferenced |-> <<>>, errorPatterns |-> <<>> ],
    m3 |-> [ type |-> "assistant", timestamp |-> NowHours - 200, cwd |-> <<"/","t","m","p">>,
             content |-> <<"d","o","c","k","e","r"," ","e","r","r","o","r"," ","f","i","x",":"," ","r","e","b","u","i","l","d"," ","t","h","e"," ","i","m","a","g","e"," ","w","i","t","h"," ","n","o"," ","c","a","c","h","e"," ","e","n","a","b","l","e","d">>,
             toolsUsed |-> << <<"B","a","s","h">> >>, filesReferenced |-> <<>>, errorPatterns |-> <<>> ],
    m4 |-> [ type |-> "assistant", timestamp |-> NowHours - 50, cwd |-> <<"/","t","m","p">>,
             content |-> <<"d","o","c","k","e","r"," ","e","r","r","o","r"," ","f","i","x",":"," ","r","e","s","t","a","r","t"," ","t","h","e"," ","d","a","e","m","o","n"," ","a","n","d"," ","p","r","u","n","e"," ","o","l","d"," ","l","a","y","e","r","s">>,
             toolsUsed |-> << <<"B","a","s","h">> >>, filesReferenced |-> <<>>, errorPatterns |-> <<>> ],
    m5 |-> [ type |-> "user", timestamp |-> NowHours - 60, cwd |-> <<"/","t","m","p">>,
             content |-> <<"c","a","v","e","a","t",":"," ","d","o","c","k","e","r"," ","e","r","r","o","r"," ","o","u","t","p","u","t"," ","w","a","s"," ","i","n"," ","t","h","e"," ","s","y","s","t","e","m","-","r","e","m","i","n","d","e","r"," ","b","l","o","c","k">>,
             toolsUsed |-> <<>>, filesReferenced |-> <<>>, errorPatterns |-> << <<"e","r","r","o","r"," ","o","u","t","p","u","t">> >> ],
    m6 |-> [ type |-> "tool_result", timestamp |-> NowHours - 10, cwd |-> <<"/","q","/","c">>,
             content |-> <<"s","r","c","/","a","p","p",".","t","s"," ","c","o","m","p","i","l","e","d"," ","w","i","t","h","o","u","t"," ","p","r","o","b","l","e","m","s"," ","a","f","t","e","r"," ","t","h","e"," ","d","o","c","k","e","r"," ","c","a","c","h","e"," ","r","e","s","e","t">>,
             toolsUsed |-> << <<"R","e","a","d">>, <<"E","d","i","t">> >>, filesReferenced |-> << <<"s","r","c","/","a","p","p",".","t","s">> >>,
             errorPatterns |-> <<>> ],
    m7 |-> [ type |-> "assistant", timestamp |-> NowHours - 5, cwd |-> <<"/","t","m","p">>,
             content |-> <<"o","k"," ","t","h","a","n","k","s">>,
             toolsUsed |-> <<>>, filesReferenced |-> <<>>, errorPatterns |-> <<>> ],
    \* the tool result m6 logged a second time, under another working directory
    m8 |-> [ type |-> "tool_result", timestamp |-> NowHours - 12, cwd |-> <<"/","t","m","p">>,
             content |-> <<"s","r","c","/","a","p","p",".","t","s"," ","c","o","m","p","i","l","e","d"," ","w","i","t","h","o","u","t"," ","p","r","o","b","l","e","m","s"," ","a","f","t","e","r"," ","t","h","e"," ","d","o","c","k","e","r"," ","c","a","c","h","e"," ","r","e","s","e","t">>,
             toolsUsed |-> << <<"R","e","a","d">>, <<"E","d","i","t">> >>, filesReferenced |-> << <<"s","r","c","/","a","p","p",".","t","s">> >>,
             errorPatterns |-> <<>> ],
    \* the one message of session A, at a recent time T, and the one message
    \* of session B, at T minus 7 days
    \* a tool result that is mostly trailing blanks: 42 characters, 18 trimmed
    m9 |-> [ type |-> "tool_result", timestamp |-> NowHours - 3, cwd |-> <<"/","t","m","p">>,
             content |-> <<"d","o","c","k","e","r"," ","b","u","i","l","d",":"," ","d","o","n","e"," "," "," "," "," "," "," "," "," "," "," "," "," "," "," "," "," "," "," "," "," "," "," "," ">>,
             toolsUsed |-> << <<"B","a","s","h">> >>, filesReferenced |-> <<>>, errorPatterns |-> <<>> ],
    \* a short question of the user about an error, and answers to it
    mU |-> [ type |-> "user", timestamp |-> NowHours - 9, cwd |-> <<"/","t","m","p">>,
             content |-> <<"d","o","c","k","e","r"," ","e","r","r","o","r",":"," ","c","a","n","n","o","t"," ","p","u","l","l"," ","t","h","e"," ","b","a","s","e"," ","i","m","a","g","e",","," ","h","o","w"," ","d","o"," ","I"," ","f","i","x"," ","t","h","i","s"," ","b","u","i","l","d"," ","s","t","e","p","?">>,
             toolsUsed |-> <<>>, filesReferenced |-> <<>>, errorPatterns |-> <<>> ],
    mE1 |-> [ type |-> "assistant", timestamp |-> NowHours - 8, cwd |-> <<"/","t","m","p">>,
             content |-> <<"t","h","e"," ","f","i","x"," ","f","o","r"," ","t","h","e"," ","d","o","c","k","e","r"," ","e","r","r","o","r"," ","i","s"," ","t","o"," ","p","i","n"," ","t","h","e"," ","b","a","s","e"," ","i","m","a","g","e"," ","t","a","g"," ","i","n"," ","t","h","e"," ","D","o","c","k","e","r","f","i","l","e">>,
             toolsUsed |-> <<>>, filesReferenced |-> <<>>, errorPatterns |-> <<>> ],
    mE2 |-> [ type |-> "assistant", timestamp |-> NowHours - 7, cwd |-> <<"/","t","m","p">>,
             content |-> <<"r","e","s","o","l","v","e","d",":"," ","t","h","e"," ","d","o","c","k","e","r"," ","e","r","r","o","r"," ","c","a","m","e"," ","f","r","o","m"," ","a"," ","s","t","a","l","e"," ","c","a","c","h","e",","," ","f","i","x"," ","i","t"," ","b","y"," ","p","r","u","n","i","n","g"," ","l","a","y","e","r","s">>,
             toolsUsed |-> <<>>, filesReferenced |-> <<>>, errorPatterns |-> <<>> ],
    mE3 |-> [ type |-> "tool_result", timestamp |-> NowHours - 6, cwd |-> <<"/","t","m","p">>,
             content |-> <<"d","o","c","k","e","r"," ","e","r","r","o","r"," ","f","i","x","e","d",":"," ","i","m","a","g","e"," ","r","e","b","u","i","l","t"," ","w","i","t","h"," ","t","h","e"," ","s","o","l","u","t","i","o","n"," ","a","p","p","l","i","e","d"," ","a","n","d"," ","t","e","s","t","s"," ","p","a","s","s","i","n","g">>,
             toolsUsed |-> << <<"B","a","s","h">> >>, filesReferenced |-> <<>>, errorPatterns |-> <<>> ],
    mA |-> [ type |-> "assistant", timestamp |-> NowHours - 1, cwd |-> <<"/","t","m","p">>,
             content |-> <<"F","i","x","e","d"," ","a","u","t","h","e","n","t","i","c","a","t","i","o","n"," ","b","u","g"," ","i","n"," ","D","o","c","k","e","r">>,
             toolsUsed |-> <<>>, filesReferenced |-> <<>>, errorPatterns |-> <<>> ],
    mB |-> [ type |-> "assistant", timestamp |-> NowHours - 1 - WeekHours, cwd |-> <<"/","t","m","p">>,
             content |-> <<"D","o","c","k","e","r"," ","O","A","u","t","h"," ","i","m","p","l","e","m","e","n","t","a","t","i","o","n">>,
             toolsUsed |-> <<>>, filesReferenced |-> <<>>, errorPatterns |-> <<>> ] ]

Uuids == DOMAIN Records

\* The queries that reach the parser (three characters or more)
SearchQueries == { <<"f","i","x"," ","e","r","r","o","r">>, <<"d","o","c","k","e","r">> }

\* The query of the ranking scenario
RankQuery == <<"d","o","c","k","e","r"," ","a","u","t","h">>

\* The queries whose scores and analysis are computed once
TabledQueries == SearchQueries \cup { RankQuery }

\* The project directories, in readdir order
ProjectDirs == << <<"-","p","-","a">>, <<"-","p","-","b">>, <<"-","q","-","c">> >>

\* The entries of each project directory, in readdir order
DirEntries(dir) ==
  CASE dir = <<"-","p","-","a">> -> << <<"s","1",".","j","s","o","n","l">>, <<"n","o","t","e","s",".","t","x","t">>, <<"s","2",".","j","s","o","n","l">> >>
    [] dir = <<"-","p","-","b">> -> << <<"s","3",".","j","s","o","n","l">> >>
    [] dir = <<"-","q","-","c">> -> << <<"s","4",".","j","s","o","n","l">> >>
    [] OTHER -> <<>>

\* The arrangements of the records in the session files that are explored
Corpora ==
  { [ s1 |-> <<"m1", "m3">>, s2 |-> <<"m7">>, s3 |-> <<"m4", "m5">>, s4 |-> <<"m2", "m6">> ],
    [ s1 |-> <<"m7">>, s2 |-> <<"m1", "m2">>, s3 |-> <<"m3", "m4">>, s4 |-> <<"m6", "m5">> ] }

FileSlot(file) ==
  CASE file = <<"s","1",".","j","s","o","n","l">> -> "s1"
    [] file = <<"s","2",".","j","s","o","n","l">> -> "s2"
    [] file = <<"s","3",".","j","s","o","n","l">> -> "s3"
    [] file = <<"s","4",".","j","s","o","n","l">> -> "s4"

\* The log records of a session file, in line order
FileRecords(c, file) == c[FileSlot(file)]

-----------------------------------------------------------------------------
(* src/src/utils.ts                                                          *)

\* A decoder whose replace has no g flag: only the first '-' is replaced
decodeProjectPathFirstOnly(encodedPath) ==
  IF \E i \in 1..Len(encodedPath) : encodedPath[i] = "-"
  THEN LET first == CHOOSE i \in 1..Len(encodedPath) :
                      /\ encodedPath[i] = "-"
                      /\ \A j \in 1..(i - 1) : encodedPath[j] # "-"
       IN  [encodedPath EXCEPT ![first] = "/"]
  ELSE encodedPath

decodeProjectPath(encodedPath) == ReplaceChar(encodedPath, "-", "/")

encodeProjectPath(path) == ReplaceChar(path, "/", "-")

\* findJsonlFiles: the entries that end in .jsonl; [] when readdir fails
findJsonlFiles(dir, readdirFails) ==
  IF readdirFails THEN <<>>
  ELSE SelectSeq(DirEntries(dir), LAMBDA f : EndsWith(f, <<".","j","s","o","n","l">>))

\* findProjectDirectories: the entries of the projects root that are
\* directories; [] when readdir fails, and [] when the stat of an entry
\* fails (one try around the readdir and the loop over the entries)
findProjectDirectories(readdirFails, statFailsFor) ==
  IF readdirFails THEN <<>>
  ELSE IF \E i \in 1..Len(ProjectDirs) : ProjectDirs[i] = statFailsFor THEN <<>>
  ELSE ProjectDirs

\* A scorer that takes a point off a message none of whose words match
calculateRelevanceScorePenalised(rec, query, projectPath) ==
  LET contentWords == SplitWs(ToLower(rec.content))
      matching     == SelectSeq(SplitWs(ToLower(query)),
                        LAMBDA w : \E i \in 1..Len(contentWords) : Includes(contentWords[i], w))
  IN  (IF rec.type \in {"tool_use", "tool_result"} THEN 5 ELSE 0)
    + (IF matching = <<>> THEN 0 - 1 ELSE Len(matching) * 2)

\* calculateRelevanceScore(message, query, projectPath).  A missing
\* message.message gives the content ''; a missing or empty projectPath or
\* cwd gives no project bonus.
calculateRelevanceScore(rec, query, projectPath) ==
  LET lowerQuery   == ToLower(query)
      lowerContent == ToLower(rec.content)
      queryWords   == SplitWs(lowerQuery)
      contentWords == SplitWs(lowerContent)
      matching     == SelectSeq(queryWords,
                        LAMBDA w : \E i \in 1..Len(contentWords) : Includes(contentWords[i], w))
  IN  (IF Includes(lowerContent, lowerQuery) THEN 10 ELSE 0)
    + Len(matching) * 2
    + (IF rec.type \in {"tool_use", "tool_result"} THEN 5 ELSE 0)
    + (IF \/ Includes(rec.content, <<"s","r","c","/">>)
          \/ Includes(rec.content, <<".","t","s">>)
          \/ Includes(rec.content, <<".","j","s">>) THEN 3 ELSE 0)
    + (IF projectPath # <<>> /\ rec.cwd # <<>> /\ Includes(rec.cwd, projectPath) THEN 5 ELSE 0)

\* getTimeRangeFilter(timeframe): the cutoff, in hours, below which a record is
\* left out ('week' and 'last-week' are now minus 7 days; a missing or
\* unknown timeframe keeps everything)
getTimeRangeFilter(timeframe, ts) ==
  IF timeframe \in {"week", "last-week"} THEN ts >= NowHours - WeekHours ELSE TRUE

-----------------------------------------------------------------------------
(* The log reader (ConversationParser.parseJsonlFile).  It decodes the       *)
(* records of a file in line order, keeps those the time filter accepts and  *)
(* gives each the relevance score of the query it was called with.  A read   *)
(* failure ends the sequence early and is reported as a partial result: the  *)
(* first `upto` records.  A CompactMessage is kept as its uuid and its       *)
(* relevanceScore; its other fields are those of the record.                 *)

\* calculateRelevanceScore for every record, query and project directory of
\* the model, computed once
ScoreTable ==
  [u \in Uuids |-> [q \in TabledQueries |-> [d \in SeqToSet(ProjectDirs) |->
     calculateRelevanceScore(Records[u], q, decodeProjectPath(d))]]]

parseJsonlFile(c, projectDir, file, query, timeframe, upto) ==
  LET recs == Slice0(FileRecords(c, file), upto)
      kept == SelectSeq(recs, LAMBDA u : getTimeRangeFilter(timeframe, Records[u].timestamp))
  IN  [i \in 1..Len(kept) |->
         [ uuid |-> kept[i],
           relevanceScore |-> ScoreTable[kept[i]][query][projectDir] ]]

-----------------------------------------------------------------------------
(* src/src/search.ts: query analysis                                         *)

classifyQueryType(query) ==
  LET q == ToLower(query)
  IN  IF \/ Includes(q, <<"e","r","r","o","r">>) \/ Includes(q, <<"b","u","g">>)
         \/ Includes(q, <<"f","i","x">>) \/ Includes(q, <<"i","s","s","u","e">>) THEN "error"
      ELSE IF \/ Includes(q, <<"i","m","p","l","e","m","e","n","t">>) \/ Includes(q, <<"c","r","e","a","t","e">>)
              \/ Includes(q, <<"b","u","i","l","d">>) \/ Includes(q, <<"a","d","d">>) THEN "implementation"
      ELSE IF \/ Includes(q, <<"h","o","w">>) \/ Includes(q, <<"w","h","y">>)
              \/ Includes(q, <<"a","n","a","l","y","z","e">>) \/ Includes(q, <<"u","n","d","e","r","s","t","a","n","d">>) THEN "analysis"
      ELSE "general"

\* getSemanticBoosts: the boosts in insertion order, each in tenths
getSemanticBoosts(q) ==
     (IF Includes(q, <<"e","r","r","o","r">>)     THEN << [type |-> "errorResolution", boost |-> 30] >> ELSE <<>>)
  \o (IF Includes(q, <<"i","m","p","l","e","m","e","n","t">>) THEN << [type |-> "implementation",  boost |-> 25] >> ELSE <<>>)
  \o (IF Includes(q, <<"o","p","t","i","m","i","z","e">>)  THEN << [type |-> "optimization",    boost |-> 20] >> ELSE <<>>)
  \o (IF Includes(q, <<"f","i","x">>)       THEN << [type |-> "solutions",       boost |-> 28] >> ELSE <<>>)
  \o (IF Includes(q, <<"f","i","l","e">>)      THEN << [type |-> "fileOperations",  boost |-> 20] >> ELSE <<>>)
  \o (IF Includes(q, <<"t","o","o","l">>)      THEN << [type |-> "toolUsage",       boost |-> 22] >> ELSE <<>>)

\* analyzeQueryIntent: the fields the search reads.  It calls
\* query.toLowerCase() and so throws a TypeError when query is undefined.
analyzeQueryIntentThrows(query) == query = Undefined

analyzeQueryIntent(query) ==
  LET lowerQuery == ToLower(query)
  IN  [ type    |-> classifyQueryType(query),
        urgency |-> IF Includes(lowerQuery, <<"e","r","r","o","r">>) \/ Includes(lowerQuery, <<"f","a","i","l","e","d">>)
                    THEN "high" ELSE "medium",
        semanticBoosts |-> getSemanticBoosts(lowerQuery) ]

\* analyzeQueryIntent for every query of the model, computed once
AnalysisTable == [q \in TabledQueries \cup { <<"a","b">> } |-> analyzeQueryIntent(q)]

-----------------------------------------------------------------------------
(* src/src/search.ts: message predicates                                     *)

Content(m) == Records[m.uuid].content

IntentTypes == {"error", "implementation", "analysis", "general"}

SemanticTypes ==
  {"errorResolution", "implementation", "optimization", "solutions", "fileOperations", "toolUsage"}

NoisePatterns ==
  << <<"t","h","i","s"," ","s","e","s","s","i","o","n"," ","i","s"," ","b","e","i","n","g"," ","c","o","n","t","i","n","u","e","d">>, <<"c","a","v","e","a","t",":">>, <<"c","o","m","m","a","n","d","-","n","a","m","e",">">>,
     <<"l","o","c","a","l","-","c","o","m","m","a","n","d","-","s","t","d","o","u","t">>, <<"s","y","s","t","e","m","-","r","e","m","i","n","d","e","r">>, <<"c","o","m","m","a","n","d","-","m","e","s","s","a","g","e",">">>,
     <<"m","u","c","h"," ","b","e","t","t","e","r","!"," ","n","o","w"," ","i"," ","c","a","n"," ","s","e","e">>, <<"p","a","c","k","a","g","e",".","j","s">>, <<"e","x","p","o","r","t"," ","i","n","t","e","r","f","a","c","e">> >>

MinContentLength == 40

\* matchesQueryIntent reads the content, the type and the context of the
\* message and analysis.type
MatchesIntentOf(rec, type) ==
  LET content == ToLower(rec.content)
  IN  CASE type = "error" ->
             \/ Includes(content, <<"e","r","r","o","r">>) \/ Includes(content, <<"f","i","x">>)
             \/ Includes(content, <<"s","o","l","u","t","i","o","n">>)
             \/ Len(rec.errorPatterns) > 0
        [] type = "implementation" ->
             \/ Includes(content, <<"i","m","p","l","e","m","e","n","t">>) \/ Includes(content, <<"c","r","e","a","t","e">>)
             \/ Includes(content, <<"f","u","n","c","t","i","o","n">>)
        [] type = "analysis" ->
             \/ Includes(content, <<"a","n","a","l","y","z","e">>) \/ Includes(content, <<"u","n","d","e","r","s","t","a","n","d">>)
             \/ Includes(content, <<"e","x","p","l","a","i","n">>)
             \/ (rec.type = "assistant" /\ Len(content) > 100)
        [] OTHER ->
             \/ Len(rec.toolsUsed) > 0
             \/ (rec.type = "assistant" /\ Len(content) > 80)

MatchesIntentTable == [u \in Uuids |-> [t \in IntentTypes |-> MatchesIntentOf(Records[u], t)]]

matchesQueryIntent(m, analysis) == MatchesIntentTable[m.uuid][analysis.type]

\* isHighlyRelevant: the noise patterns and the minimum length
IsNoise(rec) ==
  LET content == ToLower(rec.content)
  IN  \/ \E i \in 1..Len(NoisePatterns) : Includes(content, NoisePatterns[i])
      \/ Len(content) < MinContentLength

NoiseTable == [u \in Uuids |-> IsNoise(Records[u])]

isHighlyRelevant(m, analysis) ==
  IF NoiseTable[m.uuid] THEN FALSE
  ELSE IF m.relevanceScore < 1 THEN FALSE
  ELSE matchesQueryIntent(m, analysis)

MatchesSemanticTypeOf(rec, type) ==
  LET content == ToLower(rec.content)
  IN  CASE type = "errorResolution" ->
             \/ Includes(content, <<"e","r","r","o","r">>) \/ Includes(content, <<"e","x","c","e","p","t","i","o","n">>)
             \/ Len(rec.errorPatterns) > 0
        [] type = "implementation" ->
             Includes(content, <<"f","u","n","c","t","i","o","n">>) \/ Includes(content, <<"i","m","p","l","e","m","e","n","t">>)
        [] type = "optimization" ->
             \/ Includes(content, <<"o","p","t","i","m","i","z","e">>) \/ Includes(content, <<"p","e","r","f","o","r","m","a","n","c","e">>)
             \/ Includes(content, <<"f","a","s","t","e","r">>)
        [] type = "solutions" ->
             \/ Includes(content, <<"s","o","l","u","t","i","o","n">>) \/ Includes(content, <<"f","i","x">>)
             \/ Includes(content, <<"r","e","s","o","l","v","e">>)
        [] type = "fileOperations" -> Len(rec.filesReferenced) > 0
        [] type = "toolUsage" -> Len(rec.toolsUsed) > 0
        [] OTHER -> FALSE

SemanticTypeTable ==
  [u \in Uuids |-> [t \in SemanticTypes |-> MatchesSemanticTypeOf(Records[u], t)]]

messageMatchesSemanticType(m, type) == SemanticTypeTable[m.uuid][type]

LowValuePatterns ==
  << <<"l","o","c","a","l","-","c","o","m","m","a","n","d","-","s","t","d","o","u","t",">","(","n","o"," ","c","o","n","t","e","n","t",")">>, <<"c","o","m","m","a","n","d","-","n","a","m","e",">","/","d","o","c","t","o","r">>,
     <<"s","y","s","t","e","m","-","r","e","m","i","n","d","e","r",">">>, <<"m","u","c","h"," ","b","e","t","t","e","r","!"," ","n","o","w"," ","i"," ","c","a","n"," ","s","e","e">> >>

MinTrimmedLength == 20

\* /^(ok|yes|no|sure|thanks)\.?$/, /^error:\s*$/ and /^warning:\s*$/
LowValueRegexMatch(lc) ==
  \/ \E w \in { <<"o","k">>, <<"y","e","s">>, <<"n","o">>, <<"s","u","r","e">>, <<"t","h","a","n","k","s">> } : lc = w \/ lc = w \o <<".">>
  \/ \E p \in { <<"e","r","r","o","r",":">>, <<"w","a","r","n","i","n","g",":">> } :
        /\ Len(lc) >= Len(p)
        /\ SubSeq(lc, 1, Len(p)) = p
        /\ \A i \in (Len(p) + 1)..Len(lc) : lc[i] \in WhiteChars

isLowValueContent(content) ==
  LET lowerContent == ToLower(content)
  IN  \/ \E i \in 1..Len(LowValuePatterns) : Includes(lowerContent, LowValuePatterns[i])
      \/ LowValueRegexMatch(lowerContent)
      \/ Len(Trim(content)) < MinTrimmedLength

-----------------------------------------------------------------------------
(* src/src/search.ts: scoring, deduplication and selection                   *)

\* The UTF-16 order of the letters, which Array.prototype.sort() compares by
CharCode(c) ==
  IF \E i \in 1..26 : UpperChars[i] = c THEN 64 + (CHOOSE i \in 1..26 : UpperChars[i] = c)
  ELSE IF \E i \in 1..26 : LowerChars[i] = c THEN 96 + (CHOOSE i \in 1..26 : LowerChars[i] = c)
  ELSE 0

RECURSIVE StrLess(_, _)
StrLess(a, b) ==
  IF b = <<>> THEN FALSE
  ELSE IF a = <<>> THEN TRUE
  ELSE IF CharCode(Head(a)) # CharCode(Head(b)) THEN CharCode(Head(a)) < CharCode(Head(b))
  ELSE StrLess(Tail(a), Tail(b))

\* Array.prototype.sort() of strings (insertion sort; the sort is stable)
RECURSIVE InsertStr(_, _)
InsertStr(sorted, s) ==
  IF sorted = <<>> THEN <<s>>
  ELSE IF StrLess(s, Head(sorted)) THEN <<s>> \o sorted
  ELSE <<Head(sorted)>> \o InsertStr(Tail(sorted), s)

RECURSIVE SortStrings(_)
SortStrings(ss) ==
  IF ss = <<>> THEN <<>> ELSE InsertStr(SortStrings(SubSeq(ss, 1, Len(ss) - 1)), ss[Len(ss)])

\* Array.prototype.join('|')
RECURSIVE JoinBar(_)
JoinBar(ss) ==
  IF ss = <<>> THEN <<>>
  ELSE IF Len(ss) = 1 THEN ss[1]
  ELSE ss[1] \o <<"|">> \o JoinBar(Tail(ss))

SignaturePrefixLength == 80

\* createIntelligentSignature: `${type}:${tools}:${files}:${contentHash}`
SignatureOf(rec) ==
  LET contentHash ==
        Substring0(CollapseWs(RemoveQuotes(ReplaceDigitRuns(ToLower(rec.content)))),
                   SignaturePrefixLength)
      tools == JoinBar(SortStrings(rec.toolsUsed))
      files == IF Len(rec.filesReferenced) > 0 THEN "files" ELSE "nofiles"
  IN  << rec.type, tools, files, contentHash >>

SignatureTable == [u \in Uuids |-> SignatureOf(Records[u])]

createIntelligentSignature(m) == SignatureTable[m.uuid]

\* intelligentDeduplicate: a Map from signature to message, in insertion
\* order; a later message takes the place of the one held under its
\* signature only when its final score is strictly higher.
RECURSIVE DedupInto(_, _)
DedupInto(seen, messages) ==
  IF messages = <<>> THEN seen
  ELSE LET message   == Head(messages)
           signature == createIntelligentSignature(message)
           held      == {i \in 1..Len(seen) : createIntelligentSignature(seen[i]) = signature}
       IN  IF held = {} THEN DedupInto(Append(seen, message), Tail(messages))
           ELSE LET i == CHOOSE j \in held : TRUE
                IN  IF message.finalScore > seen[i].finalScore
                    THEN DedupInto([seen EXCEPT ![i] = message], Tail(messages))
                    ELSE DedupInto(seen, Tail(messages))

\* A deduplication that tells messages apart by their uuid only
intelligentDeduplicateByUuid(messages) == messages

intelligentDeduplicate(messages) == DedupInto(<<>>, messages)

\* The final score is kept in thousandths
ScoreScale == 1000

RecencyBoostHours == 24

RECURSIVE ApplyBoosts(_, _, _)
ApplyBoosts(score, m, boosts) ==
  IF boosts = <<>> THEN score
  ELSE ApplyBoosts(IF messageMatchesSemanticType(m, Head(boosts).type)
                   THEN (score * Head(boosts).boost) \div 10 ELSE score,
                   m, Tail(boosts))

\* The score of selectTopRelevantResults: the semantic boosts, then the
\* recency boost (x 1.5) of an urgent query for a message under 24 hours old
FinalScore(m, analysis) ==
  LET boosted == ApplyBoosts(m.relevanceScore * ScoreScale, m, analysis.semanticBoosts)
  IN  IF /\ analysis.urgency = "high"
         /\ NowHours - Records[m.uuid].timestamp < RecencyBoostHours
      THEN (boosted * 15) \div 10 ELSE boosted

\* Array.prototype.sort((a, b) => b.finalScore - a.finalScore): stable
RECURSIVE InsertByScore(_, _)
InsertByScore(sorted, m) ==
  IF sorted = <<>> THEN <<m>>
  ELSE IF m.finalScore > Head(sorted).finalScore THEN <<m>> \o sorted
  ELSE <<Head(sorted)>> \o InsertByScore(Tail(sorted), m)

RECURSIVE SortByFinalScore(_)
SortByFinalScore(ms) ==
  IF ms = <<>> THEN <<>>
  ELSE InsertByScore(SortByFinalScore(SubSeq(ms, 1, Len(ms) - 1)), ms[Len(ms)])

\* A selection that forgets the final slice(0, limit)
selectTopRelevantResultsUnsliced(candidates, analysis, limit) ==
  intelligentDeduplicate(SortByFinalScore(
    [i \in 1..Len(candidates) |->
       [ uuid |-> candidates[i].uuid,
         relevanceScore |-> candidates[i].relevanceScore,
         finalScore |-> FinalScore(candidates[i], analysis) ]]))

selectTopRelevantResults(candidates, analysis, limit) ==
  LET scoredCandidates ==
        [i \in 1..Len(candidates) |->
           [ uuid |-> candidates[i].uuid,
             relevanceScore |-> candidates[i].relevanceScore,
             finalScore |-> FinalScore(candidates[i], analysis) ]]
      sorted  == SortByFinalScore(scoredCandidates)
      deduped == intelligentDeduplicate(sorted)
  IN  Slice0(deduped, limit)

\* The quality gate of performOptimizedSearch: relevanceScore >= 1.5
MinQualityScoreTenths == 15

LowValueTable == [u \in Uuids |-> isLowValueContent(Records[u].content)]

\* A gate that looks at the score alone
passesQualityGateScoreOnly(m) == m.relevanceScore * 10 >= MinQualityScoreTenths

passesQualityGate(m) ==
  /\ m.relevanceScore * 10 >= MinQualityScoreTenths
  /\ Len(Content(m)) >= MinContentLength
  /\ ~LowValueTable[m.uuid]

-----------------------------------------------------------------------------
(* The candidate cache: HistorySearchEngine.messageCache, a Map from         *)
(* `${projectDir}/${file}` to the batch parsed from that file.  A Map keeps  *)
(* its entries in insertion order, so it is a sequence of entries.           *)

\* The capacity of the cache.  The code's capacity is 500; the model keeps
\* the capacity branches and scales the number down.
CacheCapacity == 2

\* A batch is worth an eviction when one of its scores is above this
HighValueScore == 8

CacheKey(projectDir, file) == projectDir \o <<"/">> \o file

CacheHas(cache, key) == \E i \in 1..Len(cache) : cache[i].key = key

CacheGet(cache, key) == cache[CHOOSE i \in 1..Len(cache) : cache[i].key = key].msgs

\* Map.prototype.set: an existing key keeps its place
CacheSet(cache, key, msgs) ==
  IF CacheHas(cache, key)
  THEN [i \in 1..Len(cache) |-> IF cache[i].key = key THEN [key |-> key, msgs |-> msgs] ELSE cache[i]]
  ELSE Append(cache, [key |-> key, msgs |-> msgs])

\* Map.prototype.delete
CacheDelete(cache, key) == SelectSeq(cache, LAMBDA e : e.key # key)

ScoreSum(msgs) == SumSeq([i \in 1..Len(msgs) |-> msgs[i].relevanceScore])

\* The reduce that picks the least valuable entry.  min.key = <<>> is the
\* initial '' with avgScore Infinity.  avgScore is sum / length, NaN for an
\* empty batch, and NaN < x is false.  (min.avgScore || Infinity) is Infinity
\* when min.avgScore is Infinity or 0.
RECURSIVE LeastValuableFrom(_, _)
LeastValuableFrom(entries, min) ==
  IF entries = <<>> THEN min
  ELSE LET e   == Head(entries)
           sum == ScoreSum(e.msgs)
           len == Len(e.msgs)
           thresholdIsInfinity == min.key = <<>> \/ min.sum = 0
           less == /\ len > 0
                   /\ \/ thresholdIsInfinity
                      \/ sum * min.len < min.sum * len
       IN  LeastValuableFrom(Tail(entries),
             IF less THEN [key |-> e.key, sum |-> sum, len |-> len] ELSE min)

LeastValuable(cache) == LeastValuableFrom(cache, [key |-> <<>>, sum |-> 0, len |-> 1])

\* A caching branch that stores a high-value batch without evicting
CachePutNoEvict(cache, cacheKey, messages) ==
  IF Len(cache) < CacheCapacity THEN CacheSet(cache, cacheKey, messages)
  ELSE IF \E i \in 1..Len(messages) : messages[i].relevanceScore > HighValueScore
       THEN CacheSet(cache, cacheKey, messages)
       ELSE cache

\* A put that, at capacity, replaces the least valuable entry whatever the
\* new batch holds
CachePutAlwaysEvict(cache, cacheKey, messages) ==
  IF Len(cache) < CacheCapacity THEN CacheSet(cache, cacheKey, messages)
  ELSE LET leastValuable == LeastValuable(cache)
       IN  IF leastValuable.key # <<>>
           THEN CacheSet(CacheDelete(cache, leastValuable.key), cacheKey, messages)
           ELSE cache

\* The caching branch of processJsonlFile, run when a parse completes
CachePut(cache, cacheKey, messages) ==
  IF Len(cache) < CacheCapacity THEN CacheSet(cache, cacheKey, messages)
  ELSE IF \E i \in 1..Len(messages) : messages[i].relevanceScore > HighValueScore
       THEN LET leastValuable == LeastValuable(cache)
            IN  IF leastValuable.key # <<>>
                THEN CacheSet(CacheDelete(cache, leastValuable.key), cacheKey, messages)
                ELSE cache
       ELSE cache

-----------------------------------------------------------------------------
(* One searchConversations call.  Every directory listing and every file    *)
(* read is a suspension point; the code between two suspension points runs  *)
(* without interruption.                                                     *)

VARIABLES
  corpus,        \* the arrangement of the log records on disk
  messageCache,  \* HistorySearchEngine.messageCache
  phase,         \* "idle", "listing", "gathering", "returned" or "rejected"
  req,           \* the arguments of the call in progress and the I/O failure it meets
  targetDirs,    \* performOptimizedSearch: targetDirs
  tasks,         \* one processProjectFocused task per target directory
  result,        \* the SearchResult of the call: messages and totalResults
  fsLog,         \* the file-system accesses the call has initiated
  cacheAtStart,  \* messageCache when the call started
  indexer,       \* IntelligentIndexer: its index and the position of buildIndex
  pending,       \* the processJsonlFile calls suspended at parseJsonlFile, of all callers
  calc           \* a pure function that is applied: its argument and its value;
                 \* for the cache, the last put: its batch and the cache before it

vars == << corpus, messageCache, phase, req, targetDirs, tasks, result, fsLog, cacheAtStart,
           indexer, pending, calc >>

\* The components a searchConversations call does not touch
auxVars == << indexer, pending, calc >>

\* The value of a component that is not running
Unused == <<>>

\* A missing project filter or timeframe ('' is falsy as well)
Missing == <<>>

MaxProjectsFloor == 8

MaxFilesPerProject == 4

\* The largest limit explored
MaxLimit == 2

Queries == { Undefined, <<"a","b">> } \cup SearchQueries

ProjectFilters == { Missing, <<"p","-","b">> }

Timeframes == { "none", "week" }

\* The I/O failure a call meets: none, the listing of the projects root, the
\* listing of one project directory, or the read of one session file
NoFailure == [kind |-> "none", dir |-> <<>>, file |-> <<>>]

Failures ==
  { NoFailure,
    [kind |-> "root", dir |-> <<>>, file |-> <<>>],
    [kind |-> "dir",  dir |-> <<"-","p","-","b">>, file |-> <<>>],
    [kind |-> "file", dir |-> <<"-","p","-","a">>, file |-> <<"s","1",".","j","s","o","n","l">>],
    [kind |-> "file", dir |-> <<"-","q","-","c">>, file |-> <<"s","4",".","j","s","o","n","l">>] }

NoRequest ==
  [query |-> Missing, projectFilter |-> Missing, timeframe |-> "none", limit |-> 0, fail |-> NoFailure]

NoResult == [messages |-> <<>>, totalResults |-> 0]

Analysis == AnalysisTable[req.query]

\* The messages parseJsonlFile returns for a file in the call in progress
ParsedBatch(c, r, projectDir, file) ==
  parseJsonlFile(c, projectDir, file, r.query, r.timeframe,
                 IF r.fail.kind = "file" /\ r.fail.dir = projectDir /\ r.fail.file = file
                 THEN 0 ELSE Len(FileRecords(c, file)))

TargetCount(r) == r.limit * 2

TargetPerProject(r, dirs) == CeilDiv(TargetCount(r), Len(dirs))

\* processProjectFocused: the per-file filter and slice
RelevantOfFile(fileMessages, analysis, targetPerProject, nFiles) ==
  Slice0(SelectSeq(fileMessages,
                   LAMBDA m : m.relevanceScore >= 1 /\ matchesQueryIntent(m, analysis)),
         CeilDiv(targetPerProject, nFiles))

\* processProjectFocused: the loop over priorityFiles, run from file task.idx
\* until a file has to be read (a cache miss) or the loop ends
RECURSIVE RunLoop(_, _, _, _)
RunLoop(task, cache, analysis, targetPerProject) ==
  IF task.idx > Len(task.files) THEN [task EXCEPT !.pc = "done"]
  ELSE LET key == CacheKey(task.dir, task.files[task.idx])
       IN  IF CacheHas(cache, key)
           THEN LET messages == task.messages \o
                      RelevantOfFile(CacheGet(cache, key), analysis,
                                     targetPerProject, Len(task.files))
                IN  IF Len(messages) >= targetPerProject
                    THEN [task EXCEPT !.messages = messages, !.pc = "done"]
                    ELSE RunLoop([task EXCEPT !.messages = messages, !.idx = task.idx + 1],
                                 cache, analysis, targetPerProject)
           ELSE [task EXCEPT !.pc = "parsing"]

\* A read that fails by throwing: the catch around the loop of
\* processProjectFocused ends the directory with what it has
CompleteReadThrowing(task, batch, cache, analysis, targetPerProject) ==
  IF batch = <<>> THEN [cache |-> cache, task |-> [task EXCEPT !.pc = "done"]]
  ELSE LET cache2   == CachePut(cache, CacheKey(task.dir, task.files[task.idx]), batch)
           messages == task.messages \o
                         RelevantOfFile(batch, analysis, targetPerProject, Len(task.files))
       IN  [ cache |-> cache2,
             task  |-> IF Len(messages) >= targetPerProject
                       THEN [task EXCEPT !.messages = messages, !.pc = "done"]
                       ELSE RunLoop([task EXCEPT !.messages = messages, !.idx = task.idx + 1,
                                                 !.pc = "running"],
                                    cache2, analysis, targetPerProject) ]

\* processJsonlFile and processProjectFocused when the read of file task.idx
\* completes with `batch`: the batch is cached, filtered, sliced and pushed,
\* and the loop runs on to the next read.  The task and the cache after it.
CompleteRead(task, batch, cache, analysis, targetPerProject) ==
  LET cache2   == CachePut(cache, CacheKey(task.dir, task.files[task.idx]), batch)
      messages == task.messages \o
                    RelevantOfFile(batch, analysis, targetPerProject, Len(task.files))
  IN  [ cache |-> cache2,
        task  |-> IF Len(messages) >= targetPerProject
                  THEN [task EXCEPT !.messages = messages, !.pc = "done"]
                  ELSE RunLoop([task EXCEPT !.messages = messages, !.idx = task.idx + 1,
                                            !.pc = "running"],
                               cache2, analysis, targetPerProject) ]

\* gatherRelevantCandidates: the aggregation of the settled tasks, in order
RECURSIVE Aggregate(_, _, _, _, _)
Aggregate(ts, i, candidates, analysis, targetCount) ==
  IF i > Len(ts) THEN candidates
  ELSE LET dirMessages == SelectSeq(ts[i].messages, LAMBDA m : isHighlyRelevant(m, analysis))
           next == candidates \o dirMessages
       IN  IF Len(next) >= targetCount THEN next
           ELSE Aggregate(ts, i + 1, next, analysis, targetCount)

\* performOptimizedSearch, from the gathered candidates to the SearchResult
SearchResultOf(ts, r) ==
  LET analysis    == AnalysisTable[r.query]
      candidates  == Aggregate(ts, 1, <<>>, analysis, TargetCount(r))
      topRelevant == selectTopRelevantResults(candidates, analysis, r.limit)
  IN  [ messages |-> SelectSeq(topRelevant, passesQualityGate),
        totalResults |-> Len(candidates) ]

AllDone(ts) == \A i \in 1..Len(ts) : ts[i].pc = "done"

TotalGathered(ts) == SumSeq([i \in 1..Len(ts) |-> Len(ts[i].messages)])

FsOp(op, dir, file, gathered) == [op |-> op, dir |-> dir, file |-> file, gathered |-> gathered]

\* The tasks move to ts; when the last one is done the result is returned
Settle(ts) ==
  /\ tasks' = ts
  /\ IF AllDone(ts)
     THEN phase' = "returned" /\ result' = SearchResultOf(ts, req)
     ELSE phase' = "gathering" /\ result' = result

\* performOptimizedSearch: the directories the call searches, from the
\* result of findProjectDirectories
\* performOptimizedSearch: the choice of targetDirs
selectTargetDirs(projectDirs, projectFilter, limit) ==
  LET maxProjects == Min(Len(projectDirs), Max(MaxProjectsFloor, CeilDiv(limit, 2)))
  IN  IF projectFilter # Missing
      THEN SelectSeq(projectDirs, LAMBDA d : Includes(d, projectFilter))
      ELSE Slice0(projectDirs, maxProjects)

\* processProjectFocused: the choice of priorityFiles
selectPriorityFiles(jsonlFiles) ==
  Slice0(jsonlFiles, Min(MaxFilesPerProject, Len(jsonlFiles)))

TargetDirsOf(r) ==
  selectTargetDirs(findProjectDirectories(r.fail.kind = "root",
                                          IF r.fail.kind = "stat" THEN r.fail.dir ELSE Missing),
                   r.projectFilter, r.limit)

\* A processProjectFocused task that waits for findJsonlFiles
NewTask(dir) ==
  [dir |-> dir, pc |-> "listing", files |-> <<>>, idx |-> 1, messages |-> <<>>]

\* processProjectFocused when findJsonlFiles completes: priorityFiles, and the
\* loop up to the first read
StartLoop(task, r, cache, targetPerProject) ==
  LET jsonlFiles == findJsonlFiles(task.dir, r.fail.kind = "dir" /\ r.fail.dir = task.dir)
      priorityFiles == selectPriorityFiles(jsonlFiles)
  IN  RunLoop([task EXCEPT !.files = priorityFiles, !.pc = "running"], cache,
              AnalysisTable[r.query], targetPerProject)

\* searchConversations is called: analyzeQueryIntent, then performOptimizedSearch
\* up to its first suspension point, findProjectDirectories
searchConversations(query, projectFilter, timeframe, limit, fail) ==
  /\ phase = "idle"
  /\ req' = [query |-> query, projectFilter |-> projectFilter, timeframe |-> timeframe,
             limit |-> limit, fail |-> fail]
  /\ cacheAtStart' = messageCache
  /\ targetDirs' = <<>>
  /\ tasks' = <<>>
  /\ result' = NoResult
  /\ IF analyzeQueryIntentThrows(query)
     THEN phase' = "rejected" /\ fsLog' = {}
     ELSE phase' = "listing" /\ fsLog' = {FsOp("readdirRoot", <<>>, <<>>, 0)}
  /\ UNCHANGED << corpus, messageCache >>
  /\ UNCHANGED auxVars

\* findProjectDirectories completes: the short-query return, or the choice of
\* targetDirs and the start of one processProjectFocused task per directory
ProjectDirsListed ==
  /\ phase = "listing"
  /\ LET dirs == TargetDirsOf(req)
         ts   == [i \in 1..Len(dirs) |-> NewTask(dirs[i])]
     IN  IF Len(req.query) < 3
         THEN /\ phase' = "returned"
              /\ result' = NoResult
              /\ UNCHANGED << targetDirs, tasks, fsLog >>
         ELSE /\ targetDirs' = dirs
              /\ fsLog' = fsLog \cup {FsOp("readdirProject", dirs[i], <<>>, 0) : i \in 1..Len(dirs)}
              /\ Settle(ts)
  /\ UNCHANGED << corpus, messageCache, req, cacheAtStart >>
  /\ UNCHANGED auxVars

\* The task that moved to "parsing" has initiated a file read
ReadsInitiated(ts, t) ==
  IF ts[t].pc = "parsing"
  THEN {FsOp("readFile", ts[t].dir, ts[t].files[ts[t].idx], TotalGathered(ts))}
  ELSE {}

\* findJsonlFiles completes for task t, which runs its loop up to the first read
JsonlFilesListed(t) ==
  /\ phase = "gathering"
  /\ t \in 1..Len(tasks)
  /\ tasks[t].pc = "listing"
  /\ LET task == StartLoop(tasks[t], req, messageCache, TargetPerProject(req, targetDirs))
         ts   == [tasks EXCEPT ![t] = task]
     IN  /\ fsLog' = fsLog \cup ReadsInitiated(ts, t)
         /\ Settle(ts)
  /\ UNCHANGED << corpus, messageCache, req, targetDirs, cacheAtStart >>
  /\ UNCHANGED auxVars

\* parseJsonlFile completes for task t: the batch is cached, filtered and
\* pushed, and the loop runs on to the next read
FileParsed(t) ==
  /\ phase = "gathering"
  /\ t \in 1..Len(tasks)
  /\ tasks[t].pc = "parsing"
  /\ LET batch == ParsedBatch(corpus, req, tasks[t].dir, tasks[t].files[tasks[t].idx])
         after == CompleteRead(tasks[t], batch, messageCache, Analysis,
                               TargetPerProject(req, targetDirs))
         ts    == [tasks EXCEPT ![t] = after.task]
     IN  /\ messageCache' = after.cache
         /\ fsLog' = fsLog \cup ReadsInitiated(ts, t)
         /\ Settle(ts)
  /\ UNCHANGED << corpus, req, targetDirs, cacheAtStart >>
  /\ UNCHANGED auxVars

\* The caller has the outcome of the call; the SearchResult and the locals of
\* the call are dropped, the cache stays
CallSettled ==
  /\ phase \in {"returned", "rejected"}
  /\ phase' = "idle"
  /\ req' = NoRequest
  /\ targetDirs' = <<>>
  /\ tasks' = <<>>
  /\ result' = NoResult
  /\ fsLog' = {}
  /\ cacheAtStart' = <<>>
  /\ UNCHANGED << corpus, messageCache >>
  /\ UNCHANGED auxVars

Init ==
  /\ corpus \in Corpora
  /\ messageCache = <<>>
  /\ phase = "idle"
  /\ req = NoRequest
  /\ targetDirs = <<>>
  /\ tasks = <<>>
  /\ result = NoResult
  /\ fsLog = {}
  /\ cacheAtStart = <<>>
  /\ indexer = Unused
  /\ pending = Unused
  /\ calc = Unused

Next ==
  \/ \E query \in Queries, projectFilter \in ProjectFilters, timeframe \in Timeframes,
        limit \in 0..MaxLimit, fail \in Failures :
       searchConversations(query, projectFilter, timeframe, limit, fail)
  \/ ProjectDirsListed
  \/ \E t \in 1..Len(ProjectDirs) : JsonlFilesListed(t)
  \/ \E t \in 1..Len(ProjectDirs) : FileParsed(t)
  \/ CallSettled

Spec == Init /\ [][Next]_vars

-----------------------------------------------------------------------------
(* The candidate cache under concurrent callers.  Calls of                   *)
(* searchConversations that overlap meet only in messageCache, through       *)
(* processJsonlFile; each processJsonlFile call checks the cache, suspends   *)
(* at parseJsonlFile on a miss, and stores the batch when the parse          *)
(* completes.  The calls are those of any number of searches in progress.    *)

\* The most processJsonlFile calls suspended at one time
MaxPending == 3

\* The session files a call can name
SessionFiles ==
  { [dir |-> ProjectDirs[d], file |-> f] :
      d \in 1..Len(ProjectDirs), f \in { <<"s","1",".","j","s","o","n","l">>, <<"s","2",".","j","s","o","n","l">>, <<"s","3",".","j","s","o","n","l">>, <<"s","4",".","j","s","o","n","l">> } }

\* processJsonlFile is called and misses the cache: it suspends at parseJsonlFile
processJsonlFile(projectDir, file, query) ==
  /\ file \in SeqToSet(findJsonlFiles(projectDir, FALSE))
  /\ ~CacheHas(messageCache, CacheKey(projectDir, file))
  /\ Cardinality(pending) < MaxPending
  /\ pending' = pending \cup {[dir |-> projectDir, file |-> file, query |-> query]}
  /\ UNCHANGED << corpus, messageCache, phase, req, targetDirs, tasks, result, fsLog,
                  cacheAtStart, indexer, calc >>

\* The batch parseJsonlFile resolves with for a suspended call
BatchOf(p) ==
  parseJsonlFile(corpus, p.dir, p.file, p.query, "none", Len(FileRecords(corpus, p.file)))

\* No put has completed yet
NoPut == [op |-> "none", key |-> <<>>, batch |-> <<>>, cacheBefore |-> <<>>]

\* parseJsonlFile completes for a suspended call, which stores its batch
ParseCompleted(p) ==
  /\ p \in pending
  /\ messageCache' = CachePut(messageCache, CacheKey(p.dir, p.file), BatchOf(p))
  /\ pending' = pending \ {p}
  /\ calc' = [op |-> "put", key |-> CacheKey(p.dir, p.file), batch |-> BatchOf(p),
               cacheBefore |-> messageCache]
  /\ UNCHANGED << corpus, phase, req, targetDirs, tasks, result, fsLog, cacheAtStart,
                  indexer >>

CacheInit ==
  /\ corpus \in Corpora
  /\ messageCache = <<>>
  /\ pending = {}
  /\ phase = "idle"
  /\ req = NoRequest
  /\ targetDirs = <<>>
  /\ tasks = <<>>
  /\ result = NoResult
  /\ fsLog = {}
  /\ cacheAtStart = <<>>
  /\ indexer = Unused
  /\ calc = NoPut

CacheNext ==
  \/ \E sf \in SessionFiles, query \in SearchQueries : processJsonlFile(sf.dir, sf.file, query)
  \/ \E p \in pending : ParseCompleted(p)

CacheSpec == CacheInit /\ [][CacheNext]_vars

-----------------------------------------------------------------------------
(* src/unnamed/part_005: IntelligentIndexer.  A line of a session file is    *)
(* kept as what the line loop of indexFile reads of it: whether it is blank, *)
(* its size in bytes, whether JSON.parse accepts it and the message it       *)
(* decodes to.                                                               *)

\* indexFile: maxLineSizeBytes and the limit on line.length
MaxLineSizeBytes == 100000

MaxJsonLength == 500000

\* createMessageIndex: the bounds on content.length
MinIndexedContent == 10

MaxIndexedContent == 100000

\* extractKeywords: the bounds on a word's length, the size of wordCount and
\* the number of keywords kept
MinWordLength == 2

MaxWordLength == 30

MaxWordCount == 500

MaxKeywords == 15

\* A decoded message with every required field
Message(uuid, sessionId, type, content) ==
  [uuid |-> uuid, sessionId |-> sessionId, timestamp |-> NowHours - 1, type |-> type,
   content |-> content]

\* The lines that session files are made of
Lines ==
  [ good1   |-> [blank |-> FALSE, bytes |-> 120, parses |-> TRUE,
                 message |-> Message(<<"u","1">>, <<"s","a">>, "assistant",
                                     <<"d","o","c","k","e","r"," ","b","u","i","l","d"," ","f","a","i","l","e","d",":"," ","m","i","s","s","i","n","g"," ","b","a","s","e"," ","i","m","a","g","e">>)],
    good2   |-> [blank |-> FALSE, bytes |-> 110, parses |-> TRUE,
                 message |-> Message(<<"u","2">>, <<"s","a">>, "user",
                                     <<"p","l","e","a","s","e"," ","r","e","r","u","n"," ","D","o","c","k","e","r"," ","b","u","i","l","d",","," ","d","o","c","k","e","r"," ","c","a","c","h","e"," ","i","s"," ","s","t","a","l","e"," ","4","2">>)],
    good3   |-> [blank |-> FALSE, bytes |-> 100, parses |-> TRUE,
                 message |-> Message(<<"u","3">>, <<"s","b">>, "tool_result",
                                     <<"R","e","a","d"," ","s","r","c","/","a","p","p",".","t","s",":"," ","c","o","m","p","i","l","e","d">>)],
    good4   |-> [blank |-> FALSE, bytes |-> 100, parses |-> TRUE,
                 message |-> Message(<<"u","4">>, <<"s","b">>, "assistant",
                                     <<"p","u","s","h","e","d"," ","i","m","a","g","e"," ","t","o"," ","r","e","g","i","s","t","r","y">>)],
    short   |-> [blank |-> FALSE, bytes |-> 90, parses |-> TRUE,
                 message |-> Message(<<"u","5">>, <<"s","a">>, "user", <<"t","r","y"," ","a","g","a","i","n">>)],
    stop    |-> [blank |-> FALSE, bytes |-> 95, parses |-> TRUE,
                 message |-> Message(<<"u","6">>, <<"s","a">>, "user", <<"t","h","e"," ","a","n","d"," ","f","o","r"," ","y","o","u"," ","w","i","t","h"," ","t","h","a","t"," ","1","2","3">>)],
    nocontent |-> [blank |-> FALSE, bytes |-> 80, parses |-> TRUE,
                 message |-> Message(<<"u","7">>, <<"s","a">>, "user", <<>>)],
    badtype |-> [blank |-> FALSE, bytes |-> 90, parses |-> TRUE,
                 message |-> Message(<<"u","8">>, <<"s","a">>, "summary", <<"d","o","c","k","e","r"," ","s","u","m","m","a","r","y"," ","o","f"," ","t","h","e"," ","s","e","s","s","i","o","n">>)],
    nouuid  |-> [blank |-> FALSE, bytes |-> 90, parses |-> TRUE,
                 message |-> Message(<<>>, <<"s","a">>, "user", <<"d","o","c","k","e","r"," ","m","e","s","s","a","g","e"," ","w","i","t","h","o","u","t"," ","a","n"," ","i","d">>)],
    broken  |-> [blank |-> FALSE, bytes |-> 40, parses |-> FALSE,
                 message |-> Message(<<>>, <<>>, "user", <<>>)],
    huge    |-> [blank |-> FALSE, bytes |-> 200000, parses |-> TRUE,
                 message |-> Message(<<"u","9">>, <<"s","a">>, "assistant", <<"d","o","c","k","e","r"," ","l","a","y","e","r"," ","d","u","m","p">>)],
    blank   |-> [blank |-> TRUE, bytes |-> 2, parses |-> FALSE,
                 message |-> Message(<<>>, <<>>, "user", <<>>)],
    resumed |-> [blank |-> FALSE, bytes |-> 115, parses |-> TRUE,
                 message |-> Message(<<"u","1">>, <<"s","b">>, "assistant",
                                     <<"k","u","b","e","r","n","e","t","e","s"," ","d","e","p","l","o","y"," ","f","i","n","i","s","h","e","d"," ","o","n"," ","s","t","a","g","i","n","g">>)] ]

\* isValidMessage: uuid and sessionId are non-empty strings (a missing field
\* is kept as the empty sequence) and the type is one of the four
isValidMessage(message) ==
  /\ Len(message.uuid) > 0
  /\ Len(message.sessionId) > 0
  /\ message.type \in {"user", "assistant", "tool_use", "tool_result"}

\* The class \w after toLowerCase
WordChars == SeqToSet(LowerChars) \cup DigitChars \cup {"_"}

\* .replace(/[^\w\s]/g, ' ')
StripPunctuation(s) ==
  [i \in 1..Len(s) |-> IF s[i] \in WordChars \cup WhiteChars THEN s[i] ELSE " "]

IsNumeric(w) == Len(w) > 0 /\ \A i \in 1..Len(w) : w[i] \in DigitChars

commonWords ==
  { <<"t","h","e">>, <<"a">>, <<"a","n">>, <<"a","n","d">>, <<"o","r">>, <<"b","u","t">>, <<"i","n">>, <<"o","n">>, <<"a","t">>, <<"t","o">>, <<"f","o","r">>,
    <<"o","f">>, <<"w","i","t","h">>, <<"b","y">>, <<"i">>, <<"y","o","u">>, <<"h","e">>, <<"s","h","e">>, <<"i","t">>, <<"w","e">>, <<"t","h","e","y">>, <<"t","h","i","s">>,
    <<"t","h","a","t">>, <<"t","h","e","s","e">>, <<"t","h","o","s","e">>, <<"i","s">>, <<"a","r","e">>, <<"w","a","s">>, <<"w","e","r","e">>, <<"b","e">>, <<"b","e","e","n">>,
    <<"b","e","i","n","g">>, <<"h","a","v","e">>, <<"h","a","s">>, <<"h","a","d">>, <<"d","o">>, <<"d","o","e","s">>, <<"d","i","d">>, <<"w","i","l","l">>, <<"w","o","u","l","d">>,
    <<"c","o","u","l","d">>, <<"s","h","o","u","l","d">>, <<"c","a","n">>, <<"m","a","y">>, <<"m","i","g","h","t">>, <<"m","u","s","t">>, <<"f","i","l","e">>, <<"c","o","d","e">>,
    <<"f","u","n","c","t","i","o","n">>, <<"c","l","a","s","s">>, <<"m","e","t","h","o","d">>, <<"v","a","r","i","a","b","l","e">>, <<"e","r","r","o","r">>, <<"m","e","s","s","a","g","e">> }

\* wordCount: the words in order of first occurrence, each with its count
RECURSIVE CountWords(_, _)
CountWords(words, counted) ==
  IF words = <<>> THEN counted
  ELSE LET w == Head(words)
           known == \E i \in 1..Len(counted) : counted[i].word = w
       IN  CountWords(Tail(words),
             IF Len(counted) >= MaxWordCount THEN counted
             ELSE IF known
                  THEN [i \in 1..Len(counted) |->
                          IF counted[i].word = w
                          THEN [word |-> w, count |-> counted[i].count + 1] ELSE counted[i]]
                  ELSE Append(counted, [word |-> w, count |-> 1]))

\* .sort((a, b) => b[1] - a[1]), a stable sort
RECURSIVE InsertByCount(_, _)
InsertByCount(sorted, e) ==
  IF sorted = <<>> THEN << e >>
  ELSE IF Head(sorted).count < e.count THEN << e >> \o sorted
  ELSE << Head(sorted) >> \o InsertByCount(Tail(sorted), e)

RECURSIVE SortByCount(_)
SortByCount(es) ==
  IF es = <<>> THEN <<>>
  ELSE InsertByCount(SortByCount(SubSeq(es, 1, Len(es) - 1)), es[Len(es)])

extractKeywords(content) ==
  LET words == SelectSeq(SplitWs(StripPunctuation(ToLower(content))),
                 LAMBDA w : /\ Len(w) > MinWordLength
                            /\ Len(w) < MaxWordLength
                            /\ w \notin commonWords
                            /\ ~IsNumeric(w))
      top   == Slice0(SortByCount(CountWords(words, <<>>)), MaxKeywords)
  IN  [i \in 1..Len(top) |-> top[i].word]

\* detectToolUsage
toolKeywords == { <<"R","e","a","d">>, <<"W","r","i","t","e">>, <<"E","d","i","t">>, <<"B","a","s","h">>, <<"G","l","o","b">>, <<"G","r","e","p">>, <<"T","a","s","k">> }

detectToolUsage(message) ==
  \/ message.type \in {"tool_use", "tool_result"}
  \/ \E tool \in toolKeywords : Includes(message.content, tool)

\* No index entry: createMessageIndex returned null
NoIndex == [uuid |-> <<>>]

\* createMessageIndex: null for a content that is empty, shorter than 10 or
\* longer than 100000 characters, or that has no keyword
createMessageIndex(message, file, lineNumber) ==
  LET content  == message.content
      keywords == extractKeywords(content)
  IN  IF Len(content) = 0 \/ Len(content) < MinIndexedContent \/ Len(content) > MaxIndexedContent
      THEN NoIndex
      ELSE IF Len(keywords) = 0 THEN NoIndex
      ELSE [ uuid |-> message.uuid, sessionId |-> message.sessionId, type |-> message.type,
             hasTools |-> detectToolUsage(message), keywords |-> keywords,
             projectDir |-> file.projectDir, filename |-> file.filename,
             lineNumber |-> lineNumber ]

\* The session files the indexer finds: directory, name, size in bytes and
\* whether the modification time is within the last week
IndexFiles ==
  [ a1 |-> [projectDir |-> <<"-","p","-","a">>, filename |-> <<"a","1",".","j","s","o","n","l">>, size |-> 20000, recent |-> TRUE],
    a2 |-> [projectDir |-> <<"-","p","-","a">>, filename |-> <<"a","2",".","j","s","o","n","l">>, size |-> 20000, recent |-> TRUE],
    b1 |-> [projectDir |-> <<"-","p","-","b">>, filename |-> <<"b","1",".","j","s","o","n","l">>, size |-> 500, recent |-> FALSE],
    b2 |-> [projectDir |-> <<"-","p","-","b">>, filename |-> <<"b","2",".","j","s","o","n","l">>, size |-> 6000000, recent |-> TRUE] ]

\* readdir of a project directory, in listing order
IndexDirEntries(dir) ==
  CASE dir = <<"-","p","-","a">> -> << "a1", "a2" >>
    [] dir = <<"-","p","-","b">> -> << "b1", "b2" >>
    [] OTHER -> <<>>

\* The contents of the session files that are explored, as lines in order
IndexCorpora ==
  { [ a1 |-> << "good1", "broken", "good2" >>,
      a2 |-> << "huge", "good3", "blank", "badtype", "good4" >>,
      b1 |-> << "nouuid", "good4" >>,
      b2 |-> << "stop", "short" >> ],
    [ a1 |-> << "good1", "good2", "good3" >>,
      a2 |-> << "good4" >>,
      b1 |-> << >>,
      b2 |-> << "broken", "nocontent" >> ],
    [ a1 |-> << "short", "good1" >>,
      a2 |-> << "blank", "broken", "stop", "good2", "good3" >>,
      b1 |-> << "good4" >>,
      b2 |-> << "huge" >> ],
    [ a1 |-> << "good1", "good2" >>,
      a2 |-> << >>,
      b1 |-> << "resumed" >>,
      b2 |-> << >> ] }

\* buildIndex: maxMemoryMessages (50000 in the code) and maxFiles; indexFile:
\* maxLinesPerFile (5000 in the code).  The ceilings are scaled down.
MaxMemoryMessages == 3

MaxIndexedFiles == 100

MaxLinesPerFile == 4

\* estimateMessageCount stops counting above this
MaxEstimatedCount == 1000

\* The I/O failure a build meets: none, the listing of a directory, the stat
\* of a file, or the read of a file after atLine lines
NoIndexFailure == [kind |-> "none", dir |-> <<>>, file |-> "none", atLine |-> 0]

IndexFailures ==
  { NoIndexFailure,
    [kind |-> "readdir", dir |-> <<"-","p","-","b">>, file |-> "none", atLine |-> 0],
    [kind |-> "stat", dir |-> <<"-","p","-","a">>, file |-> "a1", atLine |-> 0],
    [kind |-> "stat", dir |-> <<"-","p","-","b">>, file |-> "b1", atLine |-> 0],
    [kind |-> "read", dir |-> <<"-","p","-","a">>, file |-> "a1", atLine |-> 1],
    [kind |-> "read", dir |-> <<"-","p","-","a">>, file |-> "a2", atLine |-> 0] }

\* A projectDirs argument that is missing: not a list, so iterating it throws
NotIterable == << Undefined >>

\* The projectDirs argument of buildIndex
IndexDirLists == { << <<"-","p","-","a">>, <<"-","p","-","b">> >>, << <<"-","p","-","b">> >>, NotIterable }

\* estimateMessageCount: the non-blank lines, counted up to the cap; 0 when
\* the read fails
estimateMessageCount(lines, readFails) ==
  IF readFails THEN 0
  ELSE Min(Len(SelectSeq(lines, LAMBDA l : ~Lines[l].blank)), MaxEstimatedCount + 1)

calculateFilePriority(size, messageCount, hasRecentActivity) ==
    (IF hasRecentActivity THEN 100 ELSE 0)
  + (IF size > 10000 /\ size < 1000000 THEN 50 ELSE 0)
  + (IF messageCount > 10 /\ messageCount < 500 THEN 30 ELSE 0)
  - (IF size > 5000000 THEN 50 ELSE 0)

\* prioritizeFiles, one directory: the files pushed before a stat fails; none
\* when readdir fails
RECURSIVE FilesOfDir(_, _, _)
FilesOfDir(entries, disk, fail) ==
  IF entries = <<>> THEN <<>>
  ELSE LET f == Head(entries)
       IN  IF fail.kind = "stat" /\ fail.file = f THEN <<>>
           ELSE << [ file |-> f,
                     priority |-> calculateFilePriority(IndexFiles[f].size,
                                    estimateMessageCount(disk[f], fail.kind = "read" /\ fail.file = f),
                                    IndexFiles[f].recent) ] >>
                \o FilesOfDir(Tail(entries), disk, fail)

RECURSIVE FilesOfDirs(_, _, _)
FilesOfDirs(projectDirs, disk, fail) ==
  IF projectDirs = <<>> THEN <<>>
  ELSE (IF fail.kind = "readdir" /\ fail.dir = Head(projectDirs) THEN <<>>
        ELSE FilesOfDir(IndexDirEntries(Head(projectDirs)), disk, fail))
       \o FilesOfDirs(Tail(projectDirs), disk, fail)

\* files.sort((a, b) => b.priority - a.priority), a stable sort
RECURSIVE InsertByPriority(_, _)
InsertByPriority(sorted, e) ==
  IF sorted = <<>> THEN << e >>
  ELSE IF Head(sorted).priority < e.priority THEN << e >> \o sorted
  ELSE << Head(sorted) >> \o InsertByPriority(Tail(sorted), e)

RECURSIVE SortByPriority(_)
SortByPriority(fs) ==
  IF fs = <<>> THEN <<>>
  ELSE InsertByPriority(SortByPriority(SubSeq(fs, 1, Len(fs) - 1)), fs[Len(fs)])

\* prioritizeFiles: the file queue, as file names in priority order
prioritizeFiles(projectDirs, disk, fail) ==
  LET sorted == SortByPriority(FilesOfDirs(projectDirs, disk, fail))
  IN  [i \in 1..Len(sorted) |-> sorted[i].file]

\* this.index.set(index.uuid, index): an existing uuid keeps its place
IndexSet(index, entry) ==
  IF \E i \in 1..Len(index) : index[i].uuid = entry.uuid
  THEN [i \in 1..Len(index) |-> IF index[i].uuid = entry.uuid THEN entry ELSE index[i]]
  ELSE Append(index, entry)

\* updateMappings: the uuid is added under each keyword of the entry and under
\* its session id; nothing is ever removed from either map
updateMappings(ix, index) ==
  [ix EXCEPT !.keywordMap = @ \cup { [keyword |-> index.keywords[i], uuid |-> index.uuid] :
                                       i \in 1..Len(index.keywords) },
             !.sessionMap = @ \cup { [sessionId |-> index.sessionId, uuid |-> index.uuid] }]

\* The body of the line loop of indexFile for one line that is within the
\* line ceiling: what becomes of the index and of the two counters
IndexLine(ix, line, file, lineNumber) ==
  IF line.blank THEN ix
  ELSE IF line.bytes > MaxLineSizeBytes THEN [ix EXCEPT !.skippedLines = @ + 1]
  ELSE IF line.bytes > MaxJsonLength THEN [ix EXCEPT !.skippedLines = @ + 1]
  ELSE IF ~line.parses THEN [ix EXCEPT !.skippedLines = @ + 1]
  ELSE IF ~isValidMessage(line.message) THEN [ix EXCEPT !.skippedLines = @ + 1]
  ELSE LET entry == createMessageIndex(line.message, file, lineNumber)
       IN  IF entry.uuid = <<>> THEN ix
           ELSE updateMappings([ix EXCEPT !.index = IndexSet(@, entry),
                                          !.processedLines = @ + 1,
                                          !.fileEntries = Append(@, entry.uuid)], entry)

\* The indexer before buildIndex is called: an empty index
IdleIndexer(disk) ==
  [ pc |-> "idle", disk |-> disk, fail |-> NoIndexFailure, index |-> <<>>, queue |-> <<>>,
    pos |-> 1, lineNumber |-> 0, processedLines |-> 0, skippedLines |-> 0,
    reports |-> <<>>, stopped |-> "no", projectDirs |-> <<>>, fileEntries |-> <<>>,
    keywordMap |-> {}, sessionMap |-> {} ]

SearchUnchanged ==
  UNCHANGED << corpus, messageCache, phase, req, targetDirs, tasks, result, fsLog,
               cacheAtStart, pending, calc >>

\* buildIndex is called: prioritizeFiles, then the loop over the first
\* maxFiles files of the queue.  A projectDirs that cannot be iterated makes
\* prioritizeFiles throw, which the outer catch of buildIndex absorbs.
buildIndex(projectDirs, fail) ==
  /\ indexer.pc = "idle"
  /\ indexer' =
       IF projectDirs = NotIterable
       THEN [indexer EXCEPT !.pc = "done", !.fail = fail, !.queue = <<>>, !.pos = 1,
                            !.reports = <<>>, !.stopped = "error", !.projectDirs = <<>>]
       ELSE LET fileQueue == prioritizeFiles(projectDirs, indexer.disk, fail)
            IN  [indexer EXCEPT !.pc = "loop", !.fail = fail,
                                !.queue = Slice0(fileQueue, Min(Len(fileQueue), MaxIndexedFiles)),
                                !.pos = 1, !.reports = <<>>, !.stopped = "no",
                                !.projectDirs = projectDirs]
  /\ SearchUnchanged

\* The head of the loop of buildIndex: the end of the queue, the time
\* breaker, the memory breaker, or indexFile opens the next file
NextFile(timedOut) ==
  /\ indexer.pc = "loop"
  /\ indexer' =
       IF indexer.pos > Len(indexer.queue) THEN [indexer EXCEPT !.pc = "done"]
       ELSE IF timedOut THEN [indexer EXCEPT !.pc = "done", !.stopped = "time"]
       ELSE IF Len(indexer.index) > MaxMemoryMessages
            THEN [indexer EXCEPT !.pc = "done", !.stopped = "memory"]
       ELSE [indexer EXCEPT !.pc = "reading", !.lineNumber = 0, !.processedLines = 0,
                            !.skippedLines = 0, !.fileEntries = <<>>]
  /\ SearchUnchanged

\* indexFile is over for the file at pos: its counters are reported, with the
\* uuids it has set in the index, in order
FileDone(ix, outcome) ==
  [ix EXCEPT !.pc = "loop", !.pos = @ + 1,
             !.reports = Append(@, [ file |-> ix.queue[ix.pos], outcome |-> outcome,
                                     processedLines |-> ix.processedLines,
                                     skippedLines |-> ix.skippedLines,
                                     indexed |-> ix.fileEntries ])]

\* The line loop of indexFile delivers the next line, the end of the file or
\* a read error
LineRead ==
  /\ indexer.pc = "reading"
  /\ LET f     == indexer.queue[indexer.pos]
         lines == indexer.disk[f]
         n     == indexer.lineNumber + 1
     IN  indexer' =
           IF /\ indexer.fail.kind = "read" /\ indexer.fail.file = f
              /\ indexer.lineNumber = indexer.fail.atLine
           THEN FileDone(indexer, "error")
           ELSE IF indexer.lineNumber = Len(lines) THEN FileDone(indexer, "end")
           ELSE IF n > MaxLinesPerFile
                THEN FileDone([indexer EXCEPT !.lineNumber = n], "ceiling")
           ELSE IndexLine([indexer EXCEPT !.lineNumber = n], Lines[lines[n]], IndexFiles[f], n)
  /\ SearchUnchanged

\* buildIndex has resolved; the index stays for the searches and for the
\* next build
BuildSettled ==
  /\ indexer.pc = "done"
  /\ indexer' = [indexer EXCEPT !.pc = "idle"]
  /\ SearchUnchanged

IndexInit ==
  /\ \E disk \in IndexCorpora : indexer = IdleIndexer(disk)
  /\ corpus \in Corpora
  /\ messageCache = <<>>
  /\ phase = "idle"
  /\ req = NoRequest
  /\ targetDirs = <<>>
  /\ tasks = <<>>
  /\ result = NoResult
  /\ fsLog = {}
  /\ cacheAtStart = <<>>
  /\ pending = Unused
  /\ calc = Unused

IndexNext ==
  \/ \E projectDirs \in IndexDirLists, fail \in IndexFailures : buildIndex(projectDirs, fail)
  \/ \E timedOut \in BOOLEAN : NextFile(timedOut)
  \/ LineRead
  \/ BuildSettled

IndexSpec == IndexInit /\ [][IndexNext]_vars

-----------------------------------------------------------------------------
(* The scorers as pure functions.  The inputs are drawn from the records of  *)
(* the model, each as it is, without its message.message (content ''), or   *)
(* without its context (no cwd, no timestamp); the queries are strings, the  *)
(* empty string and a blank included; the project path may be missing.       *)

LongContentLength == 200

\* HistorySearchEngine.calculateRelevanceScore(message, query), the private
\* scorer of the engine.  hasTimestamp is false when message.timestamp is
\* missing: new Date('') is an invalid date and compares false.
engineCalculateRelevanceScore(rec, query) ==
  IF rec.content = <<>> THEN 0
  ELSE
    LET lowerQuery   == ToLower(query)
        lowerContent == ToLower(rec.content)
        queryWords   == SelectSeq(SplitWs(lowerQuery), LAMBDA w : Len(w) > 2)
        contentWords == SplitWs(lowerContent)
        matches      == SelectSeq(queryWords,
                          LAMBDA w : \E i \in 1..Len(contentWords) : Includes(contentWords[i], w))
    IN  (IF Includes(lowerContent, lowerQuery) THEN 15 ELSE 0)
      + Len(matches) * 3
      + (IF rec.type \in {"tool_use", "tool_result"} THEN 8 ELSE 0)
      + (IF Includes(lowerContent, <<"t","o","o","l","_","u","s","e">>) \/ Includes(lowerContent, <<"c","a","l","l","e","d"," ","t","h","e">>)
         THEN 6 ELSE 0)
      + (IF \/ Includes(rec.content, <<".","t","s">>)
            \/ Includes(rec.content, <<".","j","s">>)
            \/ Includes(rec.content, <<"s","r","c","/">>) THEN 4 ELSE 0)
      + (IF Includes(rec.content, <<"p","a","c","k","a","g","e",".","j","s","o","n">>) \/ Includes(rec.content, <<".","m","d">>)
         THEN 3 ELSE 0)
      + (IF Includes(lowerContent, <<"e","r","r","o","r">>) \/ Includes(lowerContent, <<"f","i","x">>) THEN 4 ELSE 0)
      + (IF Includes(lowerContent, <<"s","o","l","u","t","i","o","n">>) \/ Includes(lowerContent, <<"r","e","s","o","l","v","e","d">>)
         THEN 3 ELSE 0)
      + (IF rec.type = "assistant" /\ Len(rec.content) > LongContentLength THEN 2 ELSE 0)
      + (IF rec.hasTimestamp /\ rec.timestamp > NowHours - WeekHours THEN 1 ELSE 0)

ScoreVariants == {"full", "noMessage", "noContext"}

\* The message given to a scorer
ScoreInput(uuid, variant) ==
  [ type         |-> Records[uuid].type,
    content      |-> IF variant = "noMessage" THEN <<>> ELSE Records[uuid].content,
    cwd          |-> IF variant = "noContext" THEN <<>> ELSE Records[uuid].cwd,
    hasTimestamp |-> variant # "noContext",
    timestamp    |-> Records[uuid].timestamp ]

ScoreQueries == SearchQueries \cup { <<>>, <<" ">>, <<"a","b">>, <<"z","z","z"," ","q","q","q">> }

ScoreProjectPaths == { Missing, <<"/","p","/","a">>, <<"/","t","m","p">> }

ScoreUnchanged ==
  UNCHANGED << corpus, messageCache, phase, req, targetDirs, tasks, result, fsLog,
               cacheAtStart, indexer, pending >>

\* Both scorers are applied to the input
ScoreMessage ==
  /\ calc.pc = "input"
  /\ calc' = [calc EXCEPT
        !.pc = "scored",
        !.score = calculateRelevanceScore(ScoreInput(calc.uuid, calc.variant),
                                          calc.query, calc.projectPath),
        !.engineScore = engineCalculateRelevanceScore(ScoreInput(calc.uuid, calc.variant),
                                                      calc.query)]
  /\ ScoreUnchanged

\* selectTopRelevantResults gives the scored candidate its final score, under
\* the analysis of the query of a search
BoostScore(query) ==
  /\ calc.pc = "scored"
  /\ calc.variant # "noMessage"
  /\ calc' = [calc EXCEPT
        !.pc = "boosted",
        !.boostQuery = query,
        !.finalScore = FinalScore([uuid |-> calc.uuid, relevanceScore |-> calc.score],
                                  AnalysisTable[query])]
  /\ ScoreUnchanged

ScoreInit ==
  /\ \E uuid \in Uuids, variant \in ScoreVariants, query \in ScoreQueries,
         projectPath \in ScoreProjectPaths :
       calc = [ pc |-> "input", uuid |-> uuid, variant |-> variant, query |-> query,
                projectPath |-> projectPath, score |-> 0, engineScore |-> 0,
                boostQuery |-> <<>>, finalScore |-> 0 ]
  /\ corpus \in Corpora
  /\ messageCache = <<>>
  /\ phase = "idle"
  /\ req = NoRequest
  /\ targetDirs = <<>>
  /\ tasks = <<>>
  /\ result = NoResult
  /\ fsLog = {}
  /\ cacheAtStart = <<>>
  /\ indexer = Unused
  /\ pending = Unused

ScoreNext ==
  \/ ScoreMessage
  \/ \E query \in SearchQueries : BoostScore(query)

ScoreSpec == ScoreInit /\ [][ScoreNext]_vars

-----------------------------------------------------------------------------
(* The path codec as pure functions: a path is encoded, and the encoded name *)
(* is decoded.                                                               *)

MaxPathLength == 4

PathChars == {"/", "-", "a", "."}

RECURSIVE PathsOfLength(_)
PathsOfLength(n) ==
  IF n = 0 THEN { <<>> }
  ELSE { Append(p, c) : p \in PathsOfLength(n - 1), c \in PathChars }

Paths == UNION { PathsOfLength(n) : n \in 0..MaxPathLength }

PathEncoded ==
  /\ calc.pc = "input"
  /\ calc' = [calc EXCEPT !.pc = "encoded", !.encoded = encodeProjectPath(calc.path)]
  /\ ScoreUnchanged

PathDecoded ==
  /\ calc.pc = "encoded"
  /\ calc' = [calc EXCEPT !.pc = "decoded", !.decoded = decodeProjectPath(calc.encoded)]
  /\ ScoreUnchanged

PathInit ==
  /\ \E path \in Paths :
       calc = [pc |-> "input", path |-> path, encoded |-> <<>>, decoded |-> <<>>]
  /\ corpus = CHOOSE c \in Corpora : TRUE
  /\ messageCache = <<>>
  /\ phase = "idle"
  /\ req = NoRequest
  /\ targetDirs = <<>>
  /\ tasks = <<>>
  /\ result = NoResult
  /\ fsLog = {}
  /\ cacheAtStart = <<>>
  /\ indexer = Unused
  /\ pending = Unused

PathNext ==
  \/ PathEncoded
  \/ PathDecoded

PathSpec == PathInit /\ [][PathNext]_vars

-----------------------------------------------------------------------------
(* The scenarios: searches over a log where one tool result is logged twice  *)
(* in one session file, in either order, alone or among other candidates,    *)
(* and over the log of the two sessions A and B.                             *)

DuplicateCorpora ==
  { [ s1 |-> <<"m7">>, s2 |-> <<>>, s3 |-> <<>>, s4 |-> <<"m8", "m6">> ],
    [ s1 |-> <<"m1">>, s2 |-> <<"m7">>, s3 |-> <<"m4">>, s4 |-> <<"m6", "m2", "m8">> ] }

RankCorpus == [ s1 |-> <<"mA">>, s2 |-> <<>>, s3 |-> <<"mB">>, s4 |-> <<>> ]

\* A log where a candidate that the quality gate drops outranks one it keeps
GateCorpus == [ s1 |-> <<"m9">>, s2 |-> <<>>, s3 |-> <<"m4">>, s4 |-> <<>> ]

ScenarioCorpora == DuplicateCorpora \cup { RankCorpus, GateCorpus }

ScenarioQueries == { <<"d","o","c","k","e","r">>, RankQuery }

\* The I/O failures of the scenarios: none, or the stat of one entry of the
\* projects root
ScenarioFailures == { NoFailure, [kind |-> "stat", dir |-> <<"-","p","-","a">>, file |-> <<>>] }

ScenarioInit ==
  /\ corpus \in ScenarioCorpora
  /\ messageCache = <<>>
  /\ phase = "idle"
  /\ req = NoRequest
  /\ targetDirs = <<>>
  /\ tasks = <<>>
  /\ result = NoResult
  /\ fsLog = {}
  /\ cacheAtStart = <<>>
  /\ indexer = Unused
  /\ pending = Unused
  /\ calc = Unused

ScenarioNext ==
  \/ \E query \in ScenarioQueries, projectFilter \in ProjectFilters, limit \in 1..MaxLimit,
        fail \in ScenarioFailures :
       searchConversations(query, projectFilter, "none", limit, fail)
  \/ ProjectDirsListed
  \/ \E t \in 1..Len(ProjectDirs) : JsonlFilesListed(t)
  \/ \E t \in 1..Len(ProjectDirs) : FileParsed(t)
  \/ CallSettled

ScenarioSpec == ScenarioInit /\ [][ScenarioNext]_vars

-----------------------------------------------------------------------------
(* The fan-out of a search as pure functions: the choice of the directories  *)
(* to scan among those under the projects root, and of the files to read     *)
(* among those of a directory, for any number of directories and files.      *)

MaxFanoutDirs == 10

MaxFanoutFiles == 6

\* The i-th project directory: "-p", then i times "x"
FanoutDir(i) == <<"-","p">> \o [k \in 1..i |-> "x"]

\* The i-th session file of a directory
FanoutFile(i) == [k \in 1..i |-> "s"] \o <<".","j","s","o","n","l">>

FanoutFilters == { Missing, <<"p">>, <<"p","x","x","x">>, <<"z","z">> }

FanoutLimits == { 0, 1, 15, 18, 20 }

TargetsSelected ==
  /\ calc.pc = "input"
  /\ calc' = [calc EXCEPT
        !.pc = "dirs",
        !.targetDirs = selectTargetDirs([i \in 1..calc.nDirs |-> FanoutDir(i)],
                                        calc.projectFilter, calc.limit)]
  /\ ScoreUnchanged

PriorityFilesSelected ==
  /\ calc.pc = "dirs"
  /\ calc' = [calc EXCEPT
        !.pc = "files",
        !.priorityFiles = selectPriorityFiles([i \in 1..calc.nFiles |-> FanoutFile(i)])]
  /\ ScoreUnchanged

FanoutInit ==
  /\ \E nDirs \in 0..MaxFanoutDirs, nFiles \in 0..MaxFanoutFiles,
         projectFilter \in FanoutFilters, limit \in FanoutLimits :
       calc = [ pc |-> "input", nDirs |-> nDirs, nFiles |-> nFiles,
                projectFilter |-> projectFilter, limit |-> limit,
                targetDirs |-> <<>>, priorityFiles |-> <<>> ]
  /\ corpus = CHOOSE c \in Corpora : TRUE
  /\ messageCache = <<>>
  /\ phase = "idle"
  /\ req = NoRequest
  /\ targetDirs = <<>>
  /\ tasks = <<>>
  /\ result = NoResult
  /\ fsLog = {}
  /\ cacheAtStart = <<>>
  /\ indexer = Unused
  /\ pending = Unused

FanoutNext ==
  \/ TargetsSelected
  \/ PriorityFilesSelected

FanoutSpec == FanoutInit /\ [][FanoutNext]_vars

-----------------------------------------------------------------------------
(* src/src/search.ts: findFileContext(filePath, limit).  The directories and *)
(* the files are read concurrently with Promise.allSettled, which keeps the  *)
(* order of its inputs; the function is applied as a whole.  parseJsonlFile  *)
(* is called without a query and without a time filter.                      *)

MaxContextDirs == 15

MaxContextFiles == 10

MinContextContent == 15

MaxRelatedMessages == 10

ContentSignatureLength == 200

MaxContextLimit == 3

\* String.prototype.split(sep).pop(): what follows the last separator
RECURSIVE LastComponent(_, _)
LastComponent(s, sep) ==
  IF \E i \in 1..Len(s) : s[i] = sep
  THEN LastComponent(Tail(s), sep)
  ELSE s

\* findFileContext: msg.context.filesReferenced matches the path
hasFileRef(rec, filePath) ==
  \E k \in 1..Len(rec.filesReferenced) :
    LET refLower  == ToLower(rec.filesReferenced[k])
        pathLower == ToLower(filePath)
    IN  \/ Includes(refLower, pathLower)
        \/ Includes(pathLower, refLower)
        \/ EndsWith(refLower, <<"/">> \o pathLower)
        \/ EndsWith(pathLower, <<"/">> \o refLower)
        \/ LastComponent(refLower, "/") = pathLower
        \/ LastComponent(pathLower, "/") = refLower
        \/ refLower = pathLower
        \/ Includes(refLower, ReplaceChar(pathLower, "\\", "/"))
        \/ Includes(refLower, ReplaceChar(pathLower, "/", "\\"))

\* findFileContext: the content holds a variation of the path.  The git
\* pattern test is a conjunction with this one and adds nothing to it.
hasContentRef(rec, filePath) ==
  LET contentLower == ToLower(rec.content)
      pathLower    == ToLower(filePath)
      pathVariations ==
        << pathLower,
           ReplaceChar(pathLower, "\\", "/"),
           ReplaceChar(pathLower, "/", "\\"),
           LastComponent(pathLower, "/"),
           LastComponent(pathLower, "\\") >>
  IN  \E k \in 1..Len(pathVariations) :
        Len(pathVariations[k]) > 0 /\ Includes(contentLower, pathVariations[k])

\* SearchHelpers.createContentSignature
createContentSignature(rec) ==
  << JoinBar(SortStrings(rec.filesReferenced)),
     JoinBar(SortStrings(rec.toolsUsed)),
     JoinBar(rec.errorPatterns),
     Substring0(CollapseWs(RemoveQuotes(ReplaceDigitRuns(ToLower(rec.content)))),
                ContentSignatureLength) >>

\* SearchHelpers.deduplicateByContent: the first message of each signature
\* (parsed without a query, the messages have equal relevance scores, and a
\* later one replaces the held one only on a strictly higher score)
RECURSIVE deduplicateByContent(_, _)
deduplicateByContent(seen, messages) ==
  IF messages = <<>> THEN seen
  ELSE IF \E i \in 1..Len(seen) :
            createContentSignature(Records[seen[i]]) = createContentSignature(Records[Head(messages)])
       THEN deduplicateByContent(seen, Tail(messages))
       ELSE deduplicateByContent(Append(seen, Head(messages)), Tail(messages))

\* SearchHelpers.inferOperationType
inferOperationType(messages) ==
  IF \E i \in 1..Len(messages) :
       \/ Includes(ToLower(Records[messages[i]].content), <<"w","r","i","t","e">>)
       \/ Includes(ToLower(Records[messages[i]].content), <<"e","d","i","t">>)
       \/ \E k \in 1..Len(Records[messages[i]].toolsUsed) :
             Records[messages[i]].toolsUsed[k] = <<"E","d","i","t">>
  THEN "edit" ELSE "read"

NoContext == [filePath |-> <<>>, lastModified |-> 0, relatedMessages |-> <<>>, operationType |-> "none"]

\* The FileContext of one session file, or NoContext (null)
FileContextOf(c, file, filePath, limit) ==
  LET fileMessages  == SelectSeq(FileRecords(c, file),
                         LAMBDA u : hasFileRef(Records[u], filePath)
                                      \/ hasContentRef(Records[u], filePath))
      cleanFileMessages == SelectSeq(fileMessages,
                         LAMBDA u : /\ Len(Records[u].content) > MinContextContent
                                    /\ ~isLowValueContent(Records[u].content))
      dedupedMessages == deduplicateByContent(<<>>, cleanFileMessages)
  IN  IF dedupedMessages = <<>> THEN NoContext
      ELSE [ filePath |-> filePath,
             lastModified |-> Records[dedupedMessages[1]].timestamp,
             relatedMessages |-> Slice0(dedupedMessages, Min(limit, MaxRelatedMessages)),
             operationType |-> inferOperationType(dedupedMessages) ]

\* The FileContexts of the files of one project directory, in file order
ProjectContexts(c, projectDir, filePath, limit) ==
  LET limitedFiles == Slice0(findJsonlFiles(projectDir, FALSE), MaxContextFiles)
      fileResults  == [i \in 1..Len(limitedFiles) |->
                         FileContextOf(c, limitedFiles[i], filePath, limit)]
  IN  SelectSeq(fileResults, LAMBDA r : r # NoContext)

RECURSIVE FlattenContexts(_)
FlattenContexts(perProject) ==
  IF perProject = <<>> THEN <<>> ELSE Head(perProject) \o FlattenContexts(Tail(perProject))

\* Array.prototype.sort by lastModified, latest first: stable
RECURSIVE InsertByLastModified(_, _)
InsertByLastModified(sorted, x) ==
  IF sorted = <<>> THEN <<x>>
  ELSE IF x.lastModified > Head(sorted).lastModified THEN <<x>> \o sorted
  ELSE <<Head(sorted)>> \o InsertByLastModified(Tail(sorted), x)

RECURSIVE SortByLastModified(_)
SortByLastModified(xs) ==
  IF xs = <<>> THEN <<>>
  ELSE InsertByLastModified(SortByLastModified(SubSeq(xs, 1, Len(xs) - 1)), xs[Len(xs)])

\* The logs the file-context search is applied to
ContextCorpora ==
  Corpora \cup DuplicateCorpora \cup
  { [ s1 |-> <<"m6">>, s2 |-> <<"m8", "m1">>, s3 |-> <<"m4">>, s4 |-> <<"m6", "m8">> ] }

ContextPaths == { <<"s","r","c","/","a","p","p",".","t","s">>, <<"a","p","p",".","t","s">>, <<"S","R","C","/","A","P","P",".","T","S">>, <<"l","i","b","/","a","p","p",".","t","s">>, <<"n","o","t","e","s",".","m","d">> }

\* findFileContext up to the aggregation of the settled project results
ContextsGathered ==
  /\ calc.pc = "input"
  /\ LET limitedDirs == Slice0(findProjectDirectories(FALSE, Missing), MaxContextDirs)
     IN  calc' = [calc EXCEPT
           !.pc = "gathered",
           !.fileContexts = FlattenContexts(
              [i \in 1..Len(limitedDirs) |->
                 ProjectContexts(corpus, limitedDirs[i], calc.filePath, calc.limit)])]
  /\ ScoreUnchanged

\* findFileContext returns the sorted contexts
ContextsReturned ==
  /\ calc.pc = "gathered"
  /\ calc' = [calc EXCEPT !.pc = "returned",
                          !.fileContexts = SortByLastModified(calc.fileContexts)]
  /\ ScoreUnchanged

ContextInit ==
  /\ \E filePath \in ContextPaths, limit \in 1..MaxContextLimit :
       calc = [pc |-> "input", filePath |-> filePath, limit |-> limit, fileContexts |-> <<>>]
  /\ corpus \in ContextCorpora
  /\ messageCache = <<>>
  /\ phase = "idle"
  /\ req = NoRequest
  /\ targetDirs = <<>>
  /\ tasks = <<>>
  /\ result = NoResult
  /\ fsLog = {}
  /\ cacheAtStart = <<>>
  /\ indexer = Unused
  /\ pending = Unused

ContextNext ==
  \/ ContextsGathered
  \/ ContextsReturned

ContextSpec == ContextInit /\ [][ContextNext]_vars

-----------------------------------------------------------------------------
(* src/src/search.ts: getErrorSolutions(errorPattern, limit).  The files of  *)
(* a project are parsed concurrently; the callback of each file runs when    *)
(* its parse completes and pushes into the Map of its project.  A Map keeps  *)
(* its keys in insertion order: it is a sequence of entries.                 *)

MaxErrorDirs == 12

MaxErrorFiles == 6

SolutionWindow == 5

ShortUserLength == 200

MinSolutionLength == 60

MaxSolutions == 3

SolutionContextLength == 200

MaxErrorLimit == 2

errorKeywords ==
  << <<"e","r","r","o","r",":">>, <<"f","a","i","l","e","d",":">>, <<"e","x","c","e","p","t","i","o","n",":">>, <<"c","a","n","n","o","t">>, <<"u","n","a","b","l","e"," ","t","o">>, <<"n","o","t"," ","f","o","u","n","d">>,
     <<"p","e","r","m","i","s","s","i","o","n"," ","d","e","n","i","e","d">>, <<"t","y","p","e","e","r","r","o","r">>, <<"r","e","f","e","r","e","n","c","e","e","r","r","o","r">>, <<"s","y","n","t","a","x","e","r","r","o","r">>,
     <<"m","o","d","u","l","e"," ","n","o","t"," ","f","o","u","n","d">>, <<"c","o","m","p","i","l","a","t","i","o","n"," ","e","r","r","o","r">> >>

PatternSeparators == WhiteChars \cup {":", "_", "-"}

\* String.prototype.split(/[\s:_-]+/)
RECURSIVE SplitPatternFrom(_, _, _)
SplitPatternFrom(s, i, cur) ==
  IF i > Len(s) THEN <<cur>>
  ELSE IF s[i] \in PatternSeparators
       THEN IF i > 1 /\ s[i - 1] \in PatternSeparators
            THEN SplitPatternFrom(s, i + 1, cur)
            ELSE <<cur>> \o SplitPatternFrom(s, i + 1, <<>>)
       ELSE SplitPatternFrom(s, i + 1, Append(cur, s[i]))

\* SearchHelpers.hasErrorInContent
hasErrorInContent(content, errorPattern) ==
  LET lowerContent == ToLower(content)
      lowerPattern == ToLower(errorPattern)
      patternWords == SelectSeq(SplitPatternFrom(lowerPattern, 1, <<>>), LAMBDA w : Len(w) > 2)
  IN  \/ Includes(lowerContent, lowerPattern)
      \/ \E k \in 1..Len(errorKeywords) :
            /\ Includes(lowerContent, errorKeywords[k])
            /\ \E j \in 1..Len(patternWords) : Includes(lowerContent, patternWords[j])

\* getErrorSolutions: the test of the current message
IsErrorMessage(rec, errorPattern) ==
  \/ \E k \in 1..Len(rec.errorPatterns) :
        Includes(ToLower(rec.errorPatterns[k]), ToLower(errorPattern))
  \/ hasErrorInContent(rec.content, errorPattern)

\* messages.slice(i, i + 5).filter(...), for the message at position i (from 1)
solutionMessages(messages, i) ==
  SelectSeq(SubSeq(messages, i, Min(i + SolutionWindow - 1, Len(messages))),
            LAMBDA u : \/ Records[u].type = "assistant"
                       \/ Records[u].type = "tool_result"
                       \/ (Records[u].type = "user" /\ Len(Records[u].content) < ShortUserLength))

\* map.get(key).push(...msgs), the key being set to [] first when it is new
MapPush(map, key, msgs) ==
  IF \E k \in 1..Len(map) : map[k].key = key
  THEN [k \in 1..Len(map) |->
          IF map[k].key = key THEN [key |-> key, msgs |-> map[k].msgs \o msgs] ELSE map[k]]
  ELSE Append(map, [key |-> key, msgs |-> msgs])

\* The callback of one file: the loop over the messages but the last
RECURSIVE ScanErrorFile(_, _, _, _)
ScanErrorFile(projectErrorMap, messages, i, errorPattern) ==
  IF i > Len(messages) - 1 THEN projectErrorMap
  ELSE LET current == Records[messages[i]]
       IN  IF IsErrorMessage(current, errorPattern)
           THEN ScanErrorFile(
                  MapPush(projectErrorMap,
                          IF Len(current.errorPatterns) > 0 THEN current.errorPatterns[1]
                          ELSE errorPattern,
                          solutionMessages(messages, i)),
                  messages, i + 1, errorPattern)
           ELSE ScanErrorFile(projectErrorMap, messages, i + 1, errorPattern)

\* The aggregation of the project maps, in the order of the directories
RECURSIVE AggregateErrorMaps(_, _, _)
AggregateErrorMaps(errorMap, projectMaps, dirs) ==
  IF dirs = <<>> THEN errorMap
  ELSE LET pm == projectMaps[Head(dirs)]
           RECURSIVE PushAll(_, _)
           PushAll(map, k) ==
             IF k > Len(pm) THEN map ELSE PushAll(MapPush(map, pm[k].key, pm[k].msgs), k + 1)
       IN  AggregateErrorMaps(PushAll(errorMap, 1), projectMaps, Tail(dirs))

RECURSIVE JoinContents(_)
JoinContents(msgs) ==
  IF msgs = <<>> THEN <<>>
  ELSE IF Len(msgs) = 1 THEN Records[msgs[1]].content
  ELSE Records[msgs[1]].content \o <<" ">> \o JoinContents(Tail(msgs))

\* SearchHelpers.extractSolutionContext
extractSolutionContext(msgs) == Substring0(JoinContents(msgs), SolutionContextLength) \o <<".",".",".">>

\* The ErrorSolution of one entry of errorMap, in a sequence of at most one
ErrorSolutionOf(entry) ==
  LET qualitySolutions ==
        SelectSeq(entry.msgs,
          LAMBDA u : /\ ~isLowValueContent(Records[u].content)
                     /\ Len(Records[u].content) >= MinSolutionLength
                     /\ \/ Includes(Records[u].content, <<"s","o","l","u","t","i","o","n">>)
                        \/ Includes(Records[u].content, <<"f","i","x">>)
                        \/ Includes(Records[u].content, <<"r","e","s","o","l","v","e","d">>))
  IN  IF Len(qualitySolutions) > 0
      THEN << [ errorPattern |-> entry.key,
                solution     |-> Slice0(qualitySolutions, MaxSolutions),
                context      |-> extractSolutionContext(qualitySolutions),
                frequency    |-> Len(entry.msgs) ] >>
      ELSE <<>>

\* Array.prototype.sort by frequency, highest first: stable
RECURSIVE InsertByFrequency(_, _)
InsertByFrequency(sorted, x) ==
  IF sorted = <<>> THEN <<x>>
  ELSE IF x.frequency > Head(sorted).frequency THEN <<x>> \o sorted
  ELSE <<Head(sorted)>> \o InsertByFrequency(Tail(sorted), x)

RECURSIVE SortByFrequency(_)
SortByFrequency(xs) ==
  IF xs = <<>> THEN <<>>
  ELSE InsertByFrequency(SortByFrequency(SubSeq(xs, 1, Len(xs) - 1)), xs[Len(xs)])

\* From the project maps to the returned list
BuildErrorSolutions(projectMaps, dirs, limit) ==
  LET errorMap == AggregateErrorMaps(<<>>, projectMaps, dirs)
      solutions == FlattenContexts([k \in 1..Len(errorMap) |-> ErrorSolutionOf(errorMap[k])])
  IN  Slice0(SortByFrequency(solutions), limit)

ErrorDirs == Slice0(findProjectDirectories(FALSE, Missing), MaxErrorDirs)

ErrorFilesOf(dir) == Slice0(findJsonlFiles(dir, FALSE), MaxErrorFiles)

\* The logs the error-solution search is applied to
ErrorCorpora ==
  { [ s1 |-> <<"mU", "mE1">>, s2 |-> <<"mE2", "mE3">>, s3 |-> <<"m5", "m4">>, s4 |-> <<"m6">> ],
    [ s1 |-> <<"mE3", "mE1", "m7">>, s2 |-> <<"m5", "mE2">>, s3 |-> <<"mU">>, s4 |-> <<"m3", "m4">> ] }

ErrorPatterns == { <<"d","o","c","k","e","r"," ","e","r","r","o","r">>, <<"e","r","r","o","r"," ","o","u","t","p","u","t">> }

IdleSolutions ==
  [ pc |-> "idle", errorPattern |-> <<>>, limit |-> 0, parsing |-> {},
    projectMaps |-> [d \in SeqToSet(ErrorDirs) |-> <<>>], solutions |-> <<>> ]

\* getErrorSolutions is called; the directories and their files are listed
\* and every file starts to be parsed
getErrorSolutions(errorPattern, limit) ==
  /\ calc.pc = "idle"
  /\ calc' = [calc EXCEPT
        !.pc = "gathering", !.errorPattern = errorPattern, !.limit = limit,
        !.parsing = UNION { { [dir |-> d, file |-> f] : f \in SeqToSet(ErrorFilesOf(d)) } :
                            d \in SeqToSet(ErrorDirs) }]
  /\ ScoreUnchanged

\* The parse of one file completes and its callback runs
ErrorFileParsed(p) ==
  /\ calc.pc = "gathering"
  /\ p \in calc.parsing
  /\ calc' = [calc EXCEPT
        !.parsing = calc.parsing \ {p},
        !.projectMaps[p.dir] = ScanErrorFile(calc.projectMaps[p.dir],
                                             FileRecords(corpus, p.file), 1, calc.errorPattern)]
  /\ ScoreUnchanged

\* Every parse has settled: aggregation, conversion, sort and slice
ErrorSolutionsReturned ==
  /\ calc.pc = "gathering"
  /\ calc.parsing = {}
  /\ calc' = [calc EXCEPT
        !.pc = "returned",
        !.solutions = BuildErrorSolutions(calc.projectMaps, ErrorDirs, calc.limit)]
  /\ ScoreUnchanged

ErrorInit ==
  /\ calc = IdleSolutions
  /\ corpus \in ErrorCorpora
  /\ messageCache = <<>>
  /\ phase = "idle"
  /\ req = NoRequest
  /\ targetDirs = <<>>
  /\ tasks = <<>>
  /\ result = NoResult
  /\ fsLog = {}
  /\ cacheAtStart = <<>>
  /\ indexer = Unused
  /\ pending = Unused

ErrorNext ==
  \/ \E errorPattern \in ErrorPatterns, limit \in 1..MaxErrorLimit :
       getErrorSolutions(errorPattern, limit)
  \/ \E p \in calc.parsing : ErrorFileParsed(p)
  \/ ErrorSolutionsReturned

ErrorSpec == ErrorInit /\ [][ErrorNext]_vars

-----------------------------------------------------------------------------
(* Properties                                                                *)

Returned == phase = "returned"

\* The candidates gatherRelevantCandidates returned to the call that has returned
Candidates == Aggregate(tasks, 1, <<>>, Analysis, TargetCount(req))

\* The project directory whose session files hold record u
ProjectDirOf(c, u) ==
  CHOOSE d \in SeqToSet(ProjectDirs) :
    \E f \in SeqToSet(findJsonlFiles(d, FALSE)) : u \in SeqToSet(FileRecords(c, f))

\* The relevance score of record u for the query of the call in progress
ScoreForQuery(u) == ScoreTable[u][req.query][ProjectDirOf(corpus, u)]

\* C1: searchConversations(query, limit = N) returns at most N messages.
C1_AtMostLimit == Returned => Len(result.messages) <= req.limit

\* A call that returned exactly its limit although it had more candidates
C1_Witness ==
  /\ Returned
  /\ req.limit >= 1
  /\ Len(result.messages) = req.limit
  /\ Len(intelligentDeduplicate(
           [i \in 1..Len(Candidates) |->
              [uuid |-> Candidates[i].uuid, relevanceScore |-> Candidates[i].relevanceScore,
               finalScore |-> FinalScore(Candidates[i], Analysis)]])) > req.limit

\* C2: adjacent results r1, r2 are in descending order of boosted score, and
\* on equal boosted scores r1.timestamp >= r2.timestamp.
C2_ScoreThenTimestampOrder ==
  Returned =>
    \A i \in 1..(Len(result.messages) - 1) :
      LET r1 == result.messages[i]
          r2 == result.messages[i + 1]
      IN  \/ r1.finalScore > r2.finalScore
          \/ /\ r1.finalScore = r2.finalScore
             /\ Records[r1.uuid].timestamp >= Records[r2.uuid].timestamp

\* C3: no two returned messages share a content signature, and a returned
\* message has the highest boosted score of the candidates with its signature.
C3_DedupKeepsHighest ==
  Returned =>
    /\ \A i, j \in 1..Len(result.messages) :
         i # j => createIntelligentSignature(result.messages[i])
                  # createIntelligentSignature(result.messages[j])
    /\ \A i \in 1..Len(result.messages) : \A k \in 1..Len(Candidates) :
         createIntelligentSignature(Candidates[k]) = createIntelligentSignature(result.messages[i])
           => FinalScore(Candidates[k], Analysis) <= result.messages[i].finalScore

\* Two candidates shared a signature with different boosted scores, and one
\* of them was returned
C3_Witness ==
  /\ Returned
  /\ \E i \in 1..Len(result.messages) : \E k \in 1..Len(Candidates) :
       /\ Candidates[k].uuid # result.messages[i].uuid
       /\ createIntelligentSignature(Candidates[k]) = createIntelligentSignature(result.messages[i])
       /\ FinalScore(Candidates[k], Analysis) < result.messages[i].finalScore

\* C4: every message considered or returned for query q carries the
\* relevance score computed for q, whatever queries ran earlier.
C4_ScoreIsOfThisQuery ==
  phase \in {"gathering", "returned"} =>
    /\ \A t \in 1..Len(tasks) : \A i \in 1..Len(tasks[t].messages) :
         tasks[t].messages[i].relevanceScore = ScoreForQuery(tasks[t].messages[i].uuid)
    /\ \A i \in 1..Len(result.messages) :
         result.messages[i].relevanceScore = ScoreForQuery(result.messages[i].uuid)

\* C5: no call of a public operation rejects, whatever its arguments.
C5_NeverRejects == phase # "rejected"

\* C6: a query shorter than 3 characters returns an empty list with
\* totalResults = 0 and no file-system access has been performed.
C6_ShortQueryNoFileAccess ==
  (Returned /\ Len(req.query) < 3) =>
    /\ result.messages = <<>>
    /\ result.totalResults = 0
    /\ fsLog = {}

\* The reads of one task run to the end of its loop, one after the other
RECURSIVE RunTaskToEnd(_, _, _, _, _)
RunTaskToEnd(task, cache, c, r, targetPerProject) ==
  IF task.pc # "parsing" THEN [task |-> task, cache |-> cache]
  ELSE LET after == CompleteRead(task, ParsedBatch(c, r, task.dir, task.files[task.idx]),
                                 cache, AnalysisTable[r.query], targetPerProject)
       IN  RunTaskToEnd(after.task, after.cache, c, r, targetPerProject)

\* The tasks of a call when the listing and the reads of each directory
\* complete before those of the next directory
RECURSIVE SequentialTasks(_, _, _, _, _, _)
SequentialTasks(dirs, i, ts, cache, c, r) ==
  IF i > Len(dirs) THEN ts
  ELSE LET tpp == TargetPerProject(r, dirs)
           end == RunTaskToEnd(StartLoop(NewTask(dirs[i]), r, cache, tpp), cache, c, r, tpp)
       IN  SequentialTasks(dirs, i + 1, Append(ts, end.task), end.cache, c, r)

\* The result of the call under that completion order
SequentialResult(c, r, cache) ==
  SearchResultOf(SequentialTasks(TargetDirsOf(r), 1, <<>>, cache, c, r), r)

FailedFile(dir, file) == req.fail.kind = "file" /\ req.fail.dir = dir /\ req.fail.file = file

WasRead(dir, file) == \E op \in fsLog : op.op = "readFile" /\ op.dir = dir /\ op.file = file

C8_ResultIndependentOfCompletionOrder ==
  Returned /\ Len(req.query) >= 3 => result = SequentialResult(corpus, req, cacheAtStart)

\* C9: once the candidates gathered for a query (with a positive limit) have
\* reached 2 x limit, no further file read is initiated for it.
C9_NoReadAfterTarget ==
  req.limit >= 1 =>
    \A op \in fsLog : op.op = "readFile" => op.gathered < TargetCount(req)

EntrySum(e) == ScoreSum(e.msgs)

\* The average score of a cache entry is lower than or equal to another's
\* (the average of an empty batch counts as 0)
AvgLeq(e1, e2) ==
  EntrySum(e1) * (IF Len(e2.msgs) = 0 THEN 1 ELSE Len(e2.msgs))
    <= EntrySum(e2) * (IF Len(e1.msgs) = 0 THEN 1 ELSE Len(e1.msgs))

IsHighValue(batch) == \E i \in 1..Len(batch) : batch[i].relevanceScore > HighValueScore

\* C10: when the cache is at capacity and a batch with a score above 8 is
\* put, an entry with the lowest average score is evicted and the batch is
\* stored in its place.
C10_EvictsLowestAverage ==
  [][ \A t \in 1..Len(tasks) :
        ( /\ phase = "gathering"
          /\ tasks[t].pc = "parsing"
          /\ tasks'[t] # tasks[t]
          /\ Len(messageCache) = CacheCapacity
          /\ IsHighValue(ParsedBatch(corpus, req, tasks[t].dir, tasks[t].files[tasks[t].idx])) )
        => \E i \in 1..Len(messageCache) :
             /\ \A j \in 1..Len(messageCache) : AvgLeq(messageCache[i], messageCache[j])
             /\ messageCache' =
                  CacheSet(CacheDelete(messageCache, messageCache[i].key),
                           CacheKey(tasks[t].dir, tasks[t].files[tasks[t].idx]),
                           ParsedBatch(corpus, req, tasks[t].dir, tasks[t].files[tasks[t].idx]))
    ]_vars

\* C11: the cache never holds more entries than its capacity, whatever the
\* interleaving of the processJsonlFile calls of concurrent searches.
C11_CacheBounded == Len(messageCache) <= CacheCapacity

\* The cache is full, it has evicted an entry for a later batch, and two
\* reads of files that are not cached are still suspended
C11_Witness ==
  /\ Len(messageCache) = CacheCapacity
  /\ \E p, q \in pending :
       /\ p.file # q.file
       /\ ~CacheHas(messageCache, CacheKey(p.dir, p.file))
       /\ ~CacheHas(messageCache, CacheKey(q.dir, q.file))
  /\ \E i \in 1..Len(messageCache) : messageCache[i].key = CacheKey(<<"-","q","-","c">>, <<"s","4",".","j","s","o","n","l">>)
  /\ \E i \in 1..Len(messageCache) : messageCache[i].key = CacheKey(<<"-","p","-","b">>, <<"s","3",".","j","s","o","n","l">>)

\* C12: the index never holds more entries than the message ceiling, during
\* and after buildIndex.
C12_IndexWithinCeiling == Len(indexer.index) <= MaxMemoryMessages

\* The lines of a file that the line loop considers: those up to the ceiling
ConsideredLines(disk, f) == Slice0(disk[f], MaxLinesPerFile)

\* C13: for a file longer than the line ceiling, indexing stops at the
\* ceiling, no entry comes from a later line, and the skipped-line count is
\* the number of considered non-blank lines that did not become entries.
C13_CeilingAndSkippedCount ==
  \A r \in SeqToSet(indexer.reports) :
    (Len(indexer.disk[r.file]) > MaxLinesPerFile /\ r.outcome # "error") =>
      LET considered == ConsideredLines(indexer.disk, r.file)
          nonBlank   == SelectSeq(considered, LAMBDA l : ~Lines[l].blank)
      IN  /\ r.outcome = "ceiling"
          /\ \A i \in 1..Len(indexer.index) :
               indexer.index[i].filename = IndexFiles[r.file].filename
                 => indexer.index[i].lineNumber <= MaxLinesPerFile
          /\ r.skippedLines = Len(nonBlank) - Len(r.indexed)

\* C14: when a file fails (its stat or its read), the build completes and
\* every file after it in priority order is still indexed, unless a circuit
\* breaker stopped the build.
C14_FilesAfterFailureIndexed ==
  (indexer.pc = "done" /\ indexer.stopped = "no" /\ indexer.fail.kind \in {"stat", "read"}) =>
    LET full == prioritizeFiles(indexer.projectDirs, indexer.disk, NoIndexFailure)
    IN  \A i, j \in 1..Len(full) :
          (full[i] = indexer.fail.file /\ j > i) =>
            \E r \in SeqToSet(indexer.reports) : r.file = full[j] /\ r.outcome # "error"

\* A line the log reader decodes to a record: it parses, it has the required
\* fields and a known type, its content is not empty and it is not oversized
WellFormed(l) ==
  /\ ~Lines[l].blank
  /\ Lines[l].bytes <= MaxLineSizeBytes
  /\ Lines[l].parses
  /\ isValidMessage(Lines[l].message)
  /\ Len(Lines[l].message.content) > 0

\* C15: a file read to its end yields one record for each well-formed line,
\* in line order, and nothing for the other lines.
C15_OneRecordPerWellFormedLine ==
  \A r \in SeqToSet(indexer.reports) :
    r.outcome = "end" =>
      LET wellFormed == SelectSeq(indexer.disk[r.file], LAMBDA l : WellFormed(l))
      IN  r.indexed = [i \in 1..Len(wellFormed) |-> Lines[wellFormed[i]].message.uuid]

\* C16: the score of a message under a query is never negative, whether the
\* message has content and context or not, and neither is the boosted final
\* score a candidate gets from it.
C16_ScoreNonNegative ==
  calc.pc \in {"scored", "boosted"} =>
    /\ calc.score >= 0
    /\ calc.engineScore >= 0
    /\ calc.finalScore >= 0

C16_Witness ==
  /\ calc.pc = "boosted"
  /\ calc.variant = "noContext"
  /\ calc.projectPath = Missing
  /\ calc.score > 0
  /\ calc.finalScore > calc.score * ScoreScale

\* C17: a path that holds no '-' is given back by decoding its encoding.
C17_CodecRoundTrip ==
  (calc.pc = "decoded" /\ \A i \in 1..Len(calc.path) : calc.path[i] # "-") =>
    calc.decoded = calc.path

C17_Witness ==
  /\ calc.pc = "decoded"
  /\ calc.path = << "/", "a", "/", "." >>
  /\ calc.encoded = << "-", "a", "-", "." >>
  /\ calc.decoded = calc.path

\* The uuids of the messages of a search result
ResultUuids == { result.messages[i].uuid : i \in 1..Len(result.messages) }

\* C18: when a tool result is logged twice in one session file with different
\* relevance scores (m6 and m8 in s4.jsonl: m6 has the project bonus), a
\* search returns at most one of the two, and never the lower-scoring one.
C18_HigherScoringDuplicateReturned ==
  (Returned /\ corpus \in DuplicateCorpora) =>
    LET score(u) == ScoreTable[u][req.query][<<"-","q","-","c">>]
        lower    == IF score("m6") < score("m8") THEN "m6" ELSE "m8"
    IN  /\ score("m6") # score("m8")
        /\ ~({"m6", "m8"} \subseteq ResultUuids)
        /\ lower \notin ResultUuids

\* C19: over the sessions A and B, the query "docker auth" returns A before
\* B, A with a strictly greater score.
C19_RanksAAboveB ==
  (Returned /\ corpus = RankCorpus /\ req.query = RankQuery /\ req.fail = NoFailure
            /\ req.projectFilter = Missing /\ req.limit >= 2) =>
    \E i, j \in 1..Len(result.messages) :
      /\ i < j
      /\ result.messages[i].uuid = "mA"
      /\ result.messages[j].uuid = "mB"
      /\ result.messages[i].relevanceScore > result.messages[j].relevanceScore

\* C20: a search called with the timeframe 'week' returns only messages of
\* the last 7 days, whatever searches the engine has answered before.
C20_TimeframeHonoured ==
  (Returned /\ req.timeframe = "week") =>
    \A i \in 1..Len(result.messages) :
      getTimeRangeFilter("week", Records[result.messages[i].uuid].timestamp)

\* The candidates of the call with their final scores, sorted and deduplicated
DedupedCandidates ==
  intelligentDeduplicate(SortByFinalScore(
    [i \in 1..Len(Candidates) |->
       [ uuid |-> Candidates[i].uuid,
         relevanceScore |-> Candidates[i].relevanceScore,
         finalScore |-> FinalScore(Candidates[i], Analysis) ]]))

\* C23: the quality gate comes before the truncation: when K deduplicated
\* candidates pass the gate, a call with limit N returns min(N, K) messages.
C23_GateBeforeTruncation ==
  Returned =>
    Len(result.messages) = Min(req.limit, Len(SelectSeq(DedupedCandidates, passesQualityGate)))

\* C24: every returned message has a relevance score of at least 1.5 and a
\* content of at least 40 characters that matches no noise pattern and no
\* low-value pattern.
C24_ReturnedPassGate ==
  Returned =>
    \A i \in 1..Len(result.messages) :
      LET m == result.messages[i]
      IN  /\ m.relevanceScore * 10 >= MinQualityScoreTenths
          /\ Len(Content(m)) >= MinContentLength
          /\ ~isLowValueContent(Content(m))
          /\ ~IsNoise(Records[m.uuid])

\* A call gathered a candidate that the gate drops (m9) with one that it
\* keeps, and returned the second only
C24_Witness ==
  /\ Returned
  /\ corpus = GateCorpus
  /\ \E k \in 1..Len(Candidates) : Candidates[k].uuid = "m9"
  /\ Len(result.messages) = 1
  /\ result.messages[1].uuid = "m4"

\* C25: a call with limit N scans at most max(8, ceil(N / 2)) project
\* directories and reads at most 4 session files of a directory, with or
\* without a project filter.
C25_BoundedFanout ==
  /\ calc.pc \in {"dirs", "files"} =>
       Len(calc.targetDirs) <= Max(MaxProjectsFloor, CeilDiv(calc.limit, 2))
  /\ calc.pc = "files" => Len(calc.priorityFiles) <= MaxFilesPerProject

\* C27: two tasks that missed the cache for one key store the same batch: a
\* task that writes after the other leaves the batch under the key as it was.
C27_SameKeyWritesIdempotent ==
  \A p \in pending :
    LET key   == CacheKey(p.dir, p.file)
        after == CachePut(messageCache, key, BatchOf(p))
    IN  (CacheHas(messageCache, key) /\ CacheHas(after, key)) =>
          CacheGet(after, key) = CacheGet(messageCache, key)

\* A batch that holds a message above the high-value threshold
IsHighValueBatch(messages) ==
  \E i \in 1..Len(messages) : messages[i].relevanceScore > HighValueScore

\* C28: a put of a batch without a high-value message into a cache at
\* capacity leaves the cache as it was.
C28_LowValuePutLeavesCache ==
  (calc.op = "put" /\ Len(calc.cacheBefore) >= CacheCapacity /\ ~IsHighValueBatch(calc.batch)) =>
    messageCache = calc.cacheBefore

\* A batch of low-value messages was put into a full cache that did not hold
\* its key
C28_Witness ==
  /\ calc.op = "put"
  /\ Len(calc.cacheBefore) = CacheCapacity
  /\ calc.batch # <<>>
  /\ ~IsHighValueBatch(calc.batch)
  /\ ~CacheHas(calc.cacheBefore, calc.key)
  /\ messageCache = calc.cacheBefore

\* C29: when the stat of one entry of the projects root fails, every other
\* project directory the call would have chosen is still listed and searched.
C29_StatFailureContained ==
  (Returned /\ req.fail.kind = "stat") =>
    LET others == SelectSeq(ProjectDirs, LAMBDA d : d # req.fail.dir)
    IN  \A d \in SeqToSet(selectTargetDirs(others, req.projectFilter, req.limit)) :
          /\ d \in SeqToSet(targetDirs)
          /\ \E t \in 1..Len(tasks) : tasks[t].dir = d /\ tasks[t].pc = "done"

\* C21: findFileContext(filePath, limit) returns at most limit FileContext
\* entries.
C21_ContextsAtMostLimit ==
  calc.pc = "returned" => Len(calc.fileContexts) <= calc.limit

\* C22: every message kept as a solution of a returned ErrorSolution is of
\* type assistant or tool_result.
C22_SolutionsNotHumanAuthored ==
  calc.pc = "returned" =>
    \A k \in 1..Len(calc.solutions) : \A j \in 1..Len(calc.solutions[k].solution) :
      Records[calc.solutions[k].solution[j]].type \in {"assistant", "tool_result"}

\* The project maps when the files of each project complete in listing order
RECURSIVE ScanFilesInOrder(_, _, _)
ScanFilesInOrder(projectErrorMap, files, errorPattern) ==
  IF files = <<>> THEN projectErrorMap
  ELSE ScanFilesInOrder(
         ScanErrorFile(projectErrorMap, FileRecords(corpus, Head(files)), 1, errorPattern),
         Tail(files), errorPattern)

\* C26: the list getErrorSolutions returns (the groups, their order and the
\* messages each retains) is the one obtained when the files complete in
\* listing order, whatever order they completed in.
C26_ViewsIndependentOfCompletionOrder ==
  calc.pc = "returned" =>
    calc.solutions =
      BuildErrorSolutions([d \in SeqToSet(ErrorDirs) |->
                             ScanFilesInOrder(<<>>, ErrorFilesOf(d), calc.errorPattern)],
                          ErrorDirs, calc.limit)

\* C30: the derived maps agree with the primary index: a uuid is listed under a
\* keyword exactly when the index holds an entry for that uuid whose keywords
\* contain it, and under a session id exactly when the index entry for that
\* uuid has that session id, also when a message id occurs more than once
C30_MapsConsistentWithIndex ==
  LET index == indexer.index
      keywordPairs == UNION { { [keyword |-> index[i].keywords[j], uuid |-> index[i].uuid] :
                                  j \in 1..Len(index[i].keywords) } : i \in 1..Len(index) }
      sessionPairs == { [sessionId |-> index[i].sessionId, uuid |-> index[i].uuid] :
                          i \in 1..Len(index) }
  IN  indexer.keywordMap = keywordPairs /\ indexer.sessionMap = sessionPairs

====
